---- MODULE Spec2Model ----
(***************************************************************************)
(* Model of the Texas data pipeline crawlers:                              *)
(*   - CDPBrowser, the remote-control client (identical in both files),    *)
(*   - TexasDataCrawler.run        (src/texas_data_crawler.js),            *)
(*   - TexasMultiSourceCrawler.run (src/unnamed/part_001).                 *)
(* One JavaScript macrotask never interleaves with another: an event       *)
(* (incoming message, timer, HTTP response) is handled only while the      *)
(* logical task is suspended (see Suspended).                              *)
(***************************************************************************)
EXTENDS Integers, Sequences, FiniteSets, TLC

VARIABLES
    \* ---- CDPBrowser instance ----
    browser,    \* this.browser of the crawler: "null" or "set"
    ws,         \* this.ws and its readyState: "null", "CONNECTING", "OPEN", "CLOSED"
    id,         \* this.id, the next correlation id
    pending,    \* this.pending: set of <<id, handle>> (Map id -> resolver of promise handle)
    calls,      \* history: calls[h] = the h-th send() call [mid, method, wire]
    settled,    \* settled[h] = state of the promise returned by the h-th send() call
    resolved,   \* history: handles of the promises resolved, in order
    dropped,    \* history: onmessage has dropped a message that matched no entry
    uncaught,   \* "none", or the error that escaped an event handler (ends the process)
    opened,     \* history: the connection reached OPEN
    released,   \* history: number of times close() closed an open connection
    \* ---- the logical task using the client ----
    op,         \* position inside navigate / evaluate / wait
    awaiting,   \* handle of the promise the task awaits (0: none)
    ret,        \* value returned by evaluate()
    timer,      \* a setTimeout of wait() is armed
    \* ---- the crawler's run() ----
    crawler,    \* "client" (bare client), "single" (TexasDataCrawler), "multi"
    withBrowser,\* the --browser flag
    pc,         \* position inside run()
    stages,     \* history: pipeline stages entered, in order
    datasets,   \* harvested API records (sequence of items)
    socrataSet, \* multi: this.datasets['data.texas.gov'] has been assigned
    scraped,    \* multi: this.datasets[source] of the generic sources [assigned, recs]
    apiReach,   \* multi: this.apiReachability, source -> "unset" / "true" / "false"
    legalDatasets, \* this.legalDatasets
    categorized,   \* this.categorized: the three buckets
    qualityScores, \* the scores of the last generateQualityScores() call
    filterRuns,    \* history: number of filterLegalDatasets() calls
    deepMeta,   \* single: ids pushed to deepMetadata
    idx,        \* loop index (source, item or probe)
    reachable,  \* measureAPIReachability: reachable counter
    total,      \* measureAPIReachability: total counter
    rate,       \* measureAPIReachability: the rate returned [kind, tenths]
    legalCsv,   \* multi: rows [ds, category] exportLegalCSV has written
    logged,     \* console: <<loop, index>> of every 'Error: ...' line a catch has written
    scored,     \* generateQualityScores has run (count of runs)
    exported,   \* sequence of files written by the export stage
    thrown      \* "none", or the stage in which run()'s try block threw

clientVars == <<browser, ws, id, pending, calls, settled, resolved, dropped,
                uncaught, opened, released>>
taskVars   == <<op, awaiting, ret, timer>>
classVars  == <<categorized, qualityScores, filterRuns, rate, logged, legalCsv>>
runVars    == <<crawler, withBrowser, pc, stages, datasets, socrataSet, scraped,
                apiReach, legalDatasets, classVars, deepMeta, idx, reachable, total,
                scored, exported, thrown>>
vars       == <<clientVars, taskVars, runVars>>

\* ------------------------------------------------------------------ bounds
MaxSends   == 3    \* send() calls made by the free callers of the bare client
MaxItems   == 2    \* items in the structured-API listing
NumGeneric == 1    \* browser-scrape sources modelled (the registry has 13)
NumScrape  == 2    \* browser-scrape sources of a crawl that starts at the for loop
MaxDeepItems == 11 \* relevant records handed to deep inspection
MaxRecords == 3    \* records in the listing handed to the classifier
MaxFilterRuns == 2 \* filterLegalDatasets() calls on one set of harvested records
MaxDescLength == 400 \* longest description given to the scorer
MaxCount   == 101  \* largest view / download count given to the scorer
MaxTags    == 1    \* most tags on a record given to the scorer
MaxListing == 21   \* records harvested before the reachability probes
MaxLinks   == 1    \* links a scraped page yields after the per-source keyword filter

\* ------------------------------------------------------------------ program constants
DeepLimit        == 10   \* extractDeepMetadata: datasetIds.slice(0, 10)
ProbeLimitSingle == 20   \* TexasDataCrawler.measureAPIReachability: Math.min(20, ...)
ProbeLimitMulti  == 10   \* TexasMultiSourceCrawler.measureAPIReachability: slice(0, 10)

\* ------------------------------------------------------------------ messages
\* result field of an incoming message:
\*   "absent": no result (an error response), "empty": result = {},
\*   "value": result.result.value is a string (what the caller makes of the
\*   text is the caller's step)
Results == {"absent", "empty", "value"}

\* event.data: text that JSON.parse rejects ("malformed"), the JSON literal
\* null ("null"), or a JSON object with an optional id and an optional result.
Malformed == [kind |-> "malformed", hasId |-> FALSE, id |-> 0, result |-> "absent"]
NullJson  == [kind |-> "null", hasId |-> FALSE, id |-> 0, result |-> "absent"]
Objects(n) == [kind : {"object"}, hasId : {TRUE}, id : 0..n, result : Results]
              \cup [kind : {"object"}, hasId : {FALSE}, id : {0}, result : Results]
Messages(n) == {Malformed, NullJson} \cup Objects(n)

\* msg.result || msg
Payload(msg) ==
    IF msg.result # "absent"
    THEN [from |-> "result", id |-> 0, result |-> msg.result]
    ELSE [from |-> "msg", id |-> msg.id, result |-> msg.result]

NoPayload == [from |-> "none", id |-> 0, result |-> "absent"]
Pending   == [state |-> "pending", value |-> NoPayload]
Taken     == [state |-> "taken", value |-> NoPayload]
NoPromise == [state |-> "nopromise", value |-> NoPayload]
Resolved(p) == [state |-> "resolved", value |-> p]

\* result.result.value without the optional chaining: reading value off a
\* missing result throws
EvalValueUnchained(p) ==
    IF p.result = "value" THEN "value" ELSE "TypeError"

\* result.result?.value
EvalValue(p) ==
    IF p.from = "result" /\ p.result = "value" THEN "value" ELSE "undefined"

\* ------------------------------------------------------------------ pending Map
Has(k)    == \E e \in pending : e[1] = k
Get(k)    == (CHOOSE e \in pending : e[1] = k)[2]
Set(k, h) == {e \in pending : e[1] # k} \cup {<<k, h>>}
Delete(k) == {e \in pending : e[1] # k}

\* ------------------------------------------------------------------ scheduling
AwaitOps   == {"awaitRuntime", "awaitPage", "awaitNavigate", "awaitEvaluate"}
HttpPcs    == {"ib_http", "discover_http", "socrata_http", "cg_reach", "probe_ds", "probe_src"}
BrowserPcs == {"cg_nav", "cg_wait", "cg_eval", "deep_nav", "deep_wait", "deep_eval"}

\* the task is parked on a promise no one has settled yet, or on a timer
TaskBlocked == \/ op \in AwaitOps /\ settled[awaiting].state = "pending"
               \/ op = "waiting"

\* No JavaScript is running: the event loop may dispatch the next event.
Suspended ==
    /\ uncaught = "none"
    /\ CASE pc \in HttpPcs \cup {"ib_connect", "ended"} -> TRUE
         [] pc \in BrowserPcs -> TaskBlocked
         [] pc = "client" -> op = "idle" \/ TaskBlocked
         [] OTHER -> FALSE

\* ------------------------------------------------------------------ CDPBrowser
\* new WebSocket(url) of connect(): the constructor throws on an invalid url
\* (this.ws stays null), otherwise the socket starts connecting.
connect(ctorThrows) ==
    ws' = IF ctorThrows THEN ws ELSE "CONNECTING"

\* this.ws.send(...) throws when this.ws is null (TypeError) or still
\* connecting (InvalidStateError); on a closed socket the data is discarded.
SendThrows == ws \in {"null", "CONNECTING"}
Wire == IF ws = "OPEN" THEN "sent" ELSE IF SendThrows THEN "threw" ELSE "discarded"

\* a send() that numbers a command by the size of the pending table
sendNumbersByTableSize(method) ==
    LET mid == Cardinality(pending) + 1 IN
    /\ id' = mid + 1
    /\ calls' = Append(calls, [mid |-> mid, method |-> method, wire |-> Wire])
    /\ IF SendThrows
       THEN /\ settled' = Append(settled, NoPromise)
            /\ pending' = pending
       ELSE /\ settled' = Append(settled, Pending)
            /\ pending' = Set(mid, Len(calls) + 1)

\* a send() that transmits and returns a promise whose resolver is not yet
\* in the table when the step ends
sendRegistersLater(method) ==
    /\ id' = id + 1
    /\ calls' = Append(calls, [mid |-> id, method |-> method, wire |-> Wire])
    /\ settled' = Append(settled, IF SendThrows THEN NoPromise ELSE Pending)
    /\ pending' = pending

\* send(method, params): mid = this.id++, transmit, register the resolver.
send(method) ==
    /\ id' = id + 1
    /\ calls' = Append(calls, [mid |-> id, method |-> method, wire |-> Wire])
    /\ IF SendThrows
       THEN /\ settled' = Append(settled, NoPromise)
            /\ pending' = pending
       ELSE /\ settled' = Append(settled, Pending)
            /\ pending' = Set(id, Len(calls) + 1)

\* the resolver stored by send(): settles promise h once
Resolve(h, p) ==
    IF settled[h].state = "pending" THEN [settled EXCEPT ![h] = Resolved(p)] ELSE settled

\* an onmessage that answers the oldest outstanding command, whatever the id
onmessageOldestFirst(msg) ==
    IF msg.kind # "object"
    THEN /\ uncaught' = IF msg.kind = "malformed" THEN "SyntaxError" ELSE "TypeError"
         /\ UNCHANGED <<pending, settled, resolved, dropped>>
    ELSE IF msg.hasId /\ msg.id # 0 /\ Has(msg.id)
    THEN LET k == CHOOSE k \in {e[1] : e \in pending} :
                      \A e \in pending : k <= e[1] IN
         /\ settled' = Resolve(Get(k), Payload(msg))
         /\ pending' = Delete(k)
         /\ resolved' = Append(resolved, Get(k))
         /\ UNCHANGED <<dropped, uncaught>>
    ELSE /\ dropped' = TRUE
         /\ UNCHANGED <<pending, settled, resolved, uncaught>>

\* an onmessage without the pending.has(msg.id) test: calling the resolver
\* of an id that has no entry throws
onmessageNoHasTest(msg) ==
    IF msg.kind # "object"
    THEN /\ uncaught' = IF msg.kind = "malformed" THEN "SyntaxError" ELSE "TypeError"
         /\ UNCHANGED <<pending, settled, resolved, dropped>>
    ELSE IF msg.hasId /\ msg.id # 0
    THEN IF Has(msg.id)
         THEN /\ settled' = Resolve(Get(msg.id), Payload(msg))
              /\ pending' = Delete(msg.id)
              /\ resolved' = Append(resolved, Get(msg.id))
              /\ UNCHANGED <<dropped, uncaught>>
         ELSE /\ uncaught' = "TypeError"
              /\ UNCHANGED <<pending, settled, resolved, dropped>>
    ELSE /\ dropped' = TRUE
         /\ UNCHANGED <<pending, settled, resolved, uncaught>>

\* this.ws.onmessage
onmessage(msg) ==
    IF msg.kind # "object"
    THEN \* JSON.parse throws, or msg.id is read off null: nothing catches it
         /\ uncaught' = IF msg.kind = "malformed" THEN "SyntaxError" ELSE "TypeError"
         /\ UNCHANGED <<pending, settled, resolved, dropped>>
    ELSE IF msg.hasId /\ msg.id # 0 /\ Has(msg.id)
    THEN /\ settled' = Resolve(Get(msg.id), Payload(msg))
         /\ pending' = Delete(msg.id)
         /\ resolved' = Append(resolved, Get(msg.id))
         /\ UNCHANGED <<dropped, uncaught>>
    ELSE /\ dropped' = TRUE
         /\ UNCHANGED <<pending, settled, resolved, uncaught>>

\* a navigate() that sends its three commands without awaiting in between
navigateWithoutAwaits ==
    /\ id' = id + 3
    /\ calls' = calls \o << [mid |-> id, method |-> "Runtime.enable", wire |-> Wire],
                            [mid |-> id + 1, method |-> "Page.enable", wire |-> Wire],
                            [mid |-> id + 2, method |-> "Page.navigate", wire |-> Wire] >>
    /\ IF SendThrows
       THEN /\ settled' = settled \o <<NoPromise, NoPromise, NoPromise>>
            /\ pending' = pending
       ELSE /\ settled' = settled \o <<Pending, Pending, Pending>>
            /\ pending' = pending \cup {<<id, Len(calls) + 1>>, <<id + 1, Len(calls) + 2>>,
                                         <<id + 2, Len(calls) + 3>>}
    /\ op' = IF SendThrows THEN "threw" ELSE "awaitNavigate"
    /\ awaiting' = IF SendThrows THEN 0 ELSE Len(calls) + 3
    /\ UNCHANGED <<ret, timer>>

\* navigate(url), up to its first await
navigate ==
    /\ send("Runtime.enable")
    /\ op' = IF SendThrows THEN "threw" ELSE "awaitRuntime"
    /\ awaiting' = IF SendThrows THEN 0 ELSE Len(calls) + 1
    /\ UNCHANGED <<ret, timer>>

\* evaluate(expression), up to its await
evaluate ==
    /\ send("Runtime.evaluate")
    /\ op' = IF SendThrows THEN "threw" ELSE "awaitEvaluate"
    /\ awaiting' = IF SendThrows THEN 0 ELSE Len(calls) + 1
    /\ UNCHANGED <<ret, timer>>

\* a wait that spins until the time is up instead of arming a timer, so
\* that no event handler runs meanwhile
waitBusyLoop ==
    /\ op' = "spinning"
    /\ timer' = TRUE
    /\ UNCHANGED <<awaiting, ret>>

\* wait(ms): new Promise(r => setTimeout(r, ms))
wait ==
    /\ op' = "waiting"
    /\ timer' = TRUE
    /\ UNCHANGED <<awaiting, ret>>

\* a close() that settles what is still pending and empties the table
closeFlushesPending ==
    /\ ws' = IF ws \in {"CONNECTING", "OPEN"} THEN "CLOSED" ELSE ws
    /\ released' = IF ws = "OPEN" THEN released + 1 ELSE released
    /\ pending' = {}
    /\ settled' = [h \in DOMAIN settled |->
                      IF settled[h].state = "pending" THEN Resolved(NoPayload)
                      ELSE settled[h]]

\* a close() that leaves an idle connection open
closeOnlyIfBusy ==
    /\ ws' = IF ws \in {"CONNECTING", "OPEN"} /\ pending # {} THEN "CLOSED" ELSE ws
    /\ released' = IF ws = "OPEN" /\ pending # {} THEN released + 1 ELSE released
    /\ UNCHANGED <<pending, settled>>

\* close(): if (this.ws) this.ws.close().  Nothing else is touched: the
\* pending table and the promises stay as they are.
close ==
    /\ ws' = IF ws \in {"CONNECTING", "OPEN"} THEN "CLOSED" ELSE ws
    /\ released' = IF ws = "OPEN" THEN released + 1 ELSE released
    /\ UNCHANGED <<pending, settled>>

\* ---- events and continuations of the client (shared by every specification)

\* The socket dispatches a message event only while it is open.
OnMessage(msg) ==
    /\ ws = "OPEN"
    /\ Suspended
    /\ onmessage(msg)
    /\ UNCHANGED <<browser, ws, id, calls, opened, released, taskVars, runVars>>

\* The awaited promise is settled: the async function resumes with its value.
Resume ==
    /\ uncaught = "none"
    /\ op \in AwaitOps
    /\ settled[awaiting].state = "resolved"
    /\ settled' = [settled EXCEPT ![awaiting] = Taken]
    /\ awaiting' = 0
    /\ op' = CASE op = "awaitRuntime" -> "sendPage"
               [] op = "awaitPage" -> "sendNavigate"
               [] OTHER -> "returned"
    /\ ret' = CASE op = "awaitEvaluate" -> EvalValue(settled[awaiting].value)
                [] op = "awaitNavigate" -> "object"
                [] OTHER -> ret
    /\ UNCHANGED <<browser, ws, id, pending, calls, resolved, dropped, uncaught,
                   opened, released, timer, runVars>>

\* navigate: await this.send('Page.enable')
NavigatePageEnable ==
    /\ uncaught = "none"
    /\ op = "sendPage"
    /\ send("Page.enable")
    /\ op' = IF SendThrows THEN "threw" ELSE "awaitPage"
    /\ awaiting' = IF SendThrows THEN 0 ELSE Len(calls) + 1
    /\ UNCHANGED <<browser, ws, resolved, dropped, uncaught, opened, released,
                   ret, timer, runVars>>

\* navigate: return await this.send('Page.navigate', { url })
NavigatePageNavigate ==
    /\ uncaught = "none"
    /\ op = "sendNavigate"
    /\ send("Page.navigate")
    /\ op' = IF SendThrows THEN "threw" ELSE "awaitNavigate"
    /\ awaiting' = IF SendThrows THEN 0 ELSE Len(calls) + 1
    /\ UNCHANGED <<browser, ws, resolved, dropped, uncaught, opened, released,
                   ret, timer, runVars>>

\* the setTimeout callback of wait() runs
TimerFire ==
    /\ timer
    /\ Suspended
    /\ timer' = FALSE
    /\ op' = "returned"
    /\ ret' = "undefined"
    /\ UNCHANGED <<clientVars, awaiting, runVars>>

\* ---- the bare client, driven by free callers (pc = "client")
ClientConnect ==
    /\ pc = "client" /\ Suspended
    /\ ws = "null" /\ ~opened
    /\ \E ctorThrows \in BOOLEAN : connect(ctorThrows)
    /\ UNCHANGED <<browser, id, pending, calls, settled, resolved, dropped,
                   uncaught, opened, released, taskVars, runVars>>

\* a command sent by a caller that does not await it before sending the next
ClientSend ==
    /\ pc = "client" /\ Suspended
    /\ Len(calls) < MaxSends
    /\ send("Target.getTargets")
    /\ UNCHANGED <<browser, ws, resolved, dropped, uncaught, opened, released,
                   taskVars, runVars>>

ClientNavigate ==
    /\ pc = "client" /\ Suspended /\ op = "idle"
    /\ Len(calls) + 3 <= MaxSends
    /\ navigate
    /\ UNCHANGED <<browser, ws, resolved, dropped, uncaught, opened, released, runVars>>

ClientEvaluate ==
    /\ pc = "client" /\ Suspended /\ op = "idle"
    /\ Len(calls) < MaxSends
    /\ evaluate
    /\ UNCHANGED <<browser, ws, resolved, dropped, uncaught, opened, released, runVars>>

ClientWait ==
    /\ pc = "client" /\ Suspended /\ op = "idle"
    /\ wait
    /\ UNCHANGED <<clientVars, runVars>>

ClientClose ==
    /\ pc = "client" /\ Suspended
    /\ close
    /\ UNCHANGED <<browser, id, calls, resolved, dropped,
                   uncaught, opened, taskVars, runVars>>

\* the caller takes the value returned (or the error thrown) by the operation
ClientReturn ==
    /\ pc = "client" /\ uncaught = "none"
    /\ op \in {"returned", "threw"}
    /\ op' = "idle"
    /\ ret' = "undefined"
    /\ UNCHANGED <<clientVars, awaiting, timer, runVars>>

\* ------------------------------------------------------------------ records
\* Text is a sequence of one-character strings, so that includes() and
\* toLowerCase() are computed character by character as JavaScript does.

\* a field the listing item does not have
Undefined == <<"undefined">>

\* `${v}`: an absent value is spelled out
Str(v) == IF v = Undefined THEN <<"u", "n", "d", "e", "f", "i", "n", "e", "d">> ELSE v

\* a || b on strings and arrays ('' is falsy, [] is not)
OrElse(a, b) == IF a = Undefined \/ a = <<>> THEN b ELSE a

\* String.prototype.toLowerCase
LowerOf ==
      "A" :> "a" @@ "B" :> "b" @@ "C" :> "c" @@ "D" :> "d" @@ "E" :> "e" @@ "F" :> "f" @@ "G" :>
      "g" @@ "H" :> "h" @@ "I" :> "i" @@ "J" :> "j" @@ "K" :> "k" @@ "L" :> "l" @@ "M" :> "m" @@
      "N" :> "n" @@ "O" :> "o" @@ "P" :> "p" @@ "Q" :> "q" @@ "R" :> "r" @@ "S" :> "s" @@ "T" :>
      "t" @@ "U" :> "u" @@ "V" :> "v" @@ "W" :> "w" @@ "X" :> "x" @@ "Y" :> "y" @@ "Z" :> "z"
ToLowerCase(text) ==
    [i \in DOMAIN text |-> IF text[i] \in DOMAIN LowerOf THEN LowerOf[text[i]] ELSE text[i]]

\* String.prototype.includes
Includes(text, kw) ==
    \E i \in 0..(Len(text) - Len(kw)) : SubSeq(text, i + 1, i + Len(kw)) = kw

\* Array.prototype.join(' ')
RECURSIVE Join(_)
Join(strs) ==
    IF strs = <<>> THEN <<>>
    ELSE IF Len(strs) = 1 THEN strs[1]
    ELSE strs[1] \o <<" ">> \o Join(Tail(strs))

\* the items a listing may hold, by key; a count the item lacks is 0, as
\* d.viewCount || 0 makes it
Catalogue ==
    [k \in {"legal", "attorney", "other", "courtnews", "statutereport", "barnews", "insurance", "tagonly", "catonly", "noname", "lawn", "prison", "descr"} |->
       CASE k = "legal" ->   \* name "court case filing", nothing else
         [name |-> <<"c", "o", "u", "r", "t", " ", "c", "a", "s", "e", " ", "f", "i", "l", "i", "n", "g">>,
         description |-> Undefined,
         category |-> Undefined,
         tags |-> Undefined,
         viewCount |-> 0, downloadCount |-> 0]
         [] k = "attorney" ->   \* name "attorney license bar", nothing else
         [name |-> <<"a", "t", "t", "o", "r", "n", "e", "y", " ", "l", "i", "c", "e", "n", "s", "e", " ", "b", "a", "r">>,
         description |-> Undefined,
         category |-> Undefined,
         tags |-> Undefined,
         viewCount |-> 0, downloadCount |-> 0]
         [] k = "other" ->   \* name "weather forecast", nothing else
         [name |-> <<"w", "e", "a", "t", "h", "e", "r", " ", "f", "o", "r", "e", "c", "a", "s", "t">>,
         description |-> Undefined,
         category |-> Undefined,
         tags |-> Undefined,
         viewCount |-> 0, downloadCount |-> 0]
         [] k = "courtnews" ->   \* name "County Court News"
         [name |-> <<"C", "o", "u", "n", "t", "y", " ", "C", "o", "u", "r", "t", " ", "N", "e", "w", "s">>,
         description |-> <<>>,
         category |-> Undefined,
         tags |-> Undefined,
         viewCount |-> 0, downloadCount |-> 0]
         [] k = "statutereport" ->   \* name "statute report"
         [name |-> <<"s", "t", "a", "t", "u", "t", "e", " ", "r", "e", "p", "o", "r", "t">>,
         description |-> <<>>,
         category |-> <<>>,
         tags |-> <<>>,
         viewCount |-> 0, downloadCount |-> 0]
         [] k = "barnews" ->   \* name "bar association announcement"
         [name |-> <<"b", "a", "r", " ", "a", "s", "s", "o", "c", "i", "a", "t", "i", "o", "n", " ", "a", "n", "n", "o", "u", "n", "c", "e", "m", "e", "n", "t">>,
         description |-> Undefined,
         category |-> Undefined,
         tags |-> Undefined,
         viewCount |-> 0, downloadCount |-> 0]
         [] k = "insurance" ->   \* name "insurance rates": a relevance keyword, no category keyword
         [name |-> <<"i", "n", "s", "u", "r", "a", "n", "c", "e", " ", "r", "a", "t", "e", "s">>,
         description |-> Undefined,
         category |-> Undefined,
         tags |-> Undefined,
         viewCount |-> 0, downloadCount |-> 0]
         [] k = "tagonly" ->   \* name "road conditions", category "public safety", tags traffic, court
         [name |-> <<"r", "o", "a", "d", " ", "c", "o", "n", "d", "i", "t", "i", "o", "n", "s">>,
         description |-> <<>>,
         category |-> <<"p", "u", "b", "l", "i", "c", " ", "s", "a", "f", "e", "t", "y">>,
         tags |-> <<<<"t", "r", "a", "f", "f", "i", "c">>, <<"c", "o", "u", "r", "t">>>>,
         viewCount |-> 0, downloadCount |-> 0]
         [] k = "catonly" ->   \* name "annual budget", category "Legal"
         [name |-> <<"a", "n", "n", "u", "a", "l", " ", "b", "u", "d", "g", "e", "t">>,
         description |-> Undefined,
         category |-> <<"L", "e", "g", "a", "l">>,
         tags |-> <<>>,
         viewCount |-> 0, downloadCount |-> 0]
         [] k = "noname" ->   \* no name, description "rainfall totals"
         [name |-> Undefined,
         description |-> <<"r", "a", "i", "n", "f", "a", "l", "l", " ", "t", "o", "t", "a", "l", "s">>,
         category |-> Undefined,
         tags |-> Undefined,
         viewCount |-> 0, downloadCount |-> 0]
         [] k = "lawn" ->   \* name "Lawn care showcase": keywords only inside longer words
         [name |-> <<"L", "a", "w", "n", " ", "c", "a", "r", "e", " ", "s", "h", "o", "w", "c", "a", "s", "e">>,
         description |-> Undefined,
         category |-> Undefined,
         tags |-> Undefined,
         viewCount |-> 0, downloadCount |-> 0]
         [] k = "prison" ->   \* name "inmate release dates"
         [name |-> <<"i", "n", "m", "a", "t", "e", " ", "r", "e", "l", "e", "a", "s", "e", " ", "d", "a", "t", "e", "s">>,
         description |-> Undefined,
         category |-> Undefined,
         tags |-> Undefined,
         viewCount |-> 0, downloadCount |-> 0]
         [] k = "descr" ->   \* name "Annual summary", description "Compliance reports by region"
         [name |-> <<"A", "n", "n", "u", "a", "l", " ", "s", "u", "m", "m", "a", "r", "y">>,
         description |-> <<"C", "o", "m", "p", "l", "i", "a", "n", "c", "e", " ", "r", "e", "p", "o", "r", "t", "s", " ", "b", "y", " ", "r", "e", "g", "i", "o", "n">>,
         category |-> <<>>,
         tags |-> <<>>,
         viewCount |-> 0, downloadCount |-> 0]]
Keys == DOMAIN Catalogue

\* discoverDatasetsViaAPI / crawlSocrata: data.map(d => ({...}))
Record(k) ==
    LET d == Catalogue[k] IN
    [name |-> d.name,
     description |-> IF d.description = Undefined THEN <<>> ELSE d.description,
     category |-> IF d.category = Undefined THEN <<>> ELSE d.category,
     tags |-> IF d.tags = Undefined THEN <<>> ELSE d.tags,
     viewCount |-> d.viewCount,
     downloadCount |-> d.downloadCount]

\* ------------------------------------------------------------------ classifier
Crawlers == {"single", "multi"}

\* const legalKeywords = [...]
legalKeywordsSingle ==
    << <<"l", "e", "g", "a", "l">>, <<"l", "a", "w">>, <<"c", "o", "u", "r", "t">>,
       <<"a", "t", "t", "o", "r", "n", "e", "y">>, <<"l", "i", "c", "e", "n", "s", "e">>,
       <<"p", "e", "r", "m", "i", "t">>, <<"r", "e", "g", "u", "l", "a", "t", "i", "o", "n">>,
       <<"s", "t", "a", "t", "u", "t", "e">>, <<"c", "r", "i", "m", "e">>,
       <<"c", "r", "i", "m", "i", "n", "a", "l">>, <<"j", "u", "s", "t", "i", "c", "e">>,
       <<"v", "i", "o", "l", "a", "t", "i", "o", "n">>, <<"p", "e", "n", "a", "l", "t", "y">>,
       <<"f", "i", "n", "e">>, <<"c", "o", "m", "p", "l", "i", "a", "n", "c", "e">>,
       <<"r", "e", "g", "u", "l", "a", "t", "o", "r", "y">>,
       <<"i", "n", "s", "u", "r", "a", "n", "c", "e">>, <<"t", "d", "i">>,
       <<"t", "x", "d", "p", "s">>, <<"b", "a", "r">>, <<"l", "a", "w", "y", "e", "r">>,
       <<"f", "i", "l", "i", "n", "g">>, <<"c", "a", "s", "e">>, <<"j", "u", "d", "g", "e">>,
       <<"p", "r", "o", "s", "e", "c", "u", "t", "o", "r">>, <<"d", "e", "f", "e", "n", "s", "e">>,
       <<"l", "i", "t", "i", "g", "a", "t", "i", "o", "n">>, <<"t", "a", "r", "r", "a", "n", "t">>,
       <<"h", "a", "r", "r", "i", "s">>, <<"d", "a", "l", "l", "a", "s">>,
       <<"t", "r", "a", "v", "i", "s">>, <<"b", "e", "x", "a", "r">> >>
legalKeywordsMulti ==
    << <<"l", "e", "g", "a", "l">>, <<"l", "a", "w">>, <<"c", "o", "u", "r", "t">>,
       <<"a", "t", "t", "o", "r", "n", "e", "y">>, <<"l", "i", "c", "e", "n", "s", "e">>,
       <<"p", "e", "r", "m", "i", "t">>, <<"r", "e", "g", "u", "l", "a", "t", "i", "o", "n">>,
       <<"s", "t", "a", "t", "u", "t", "e">>, <<"c", "r", "i", "m", "e">>,
       <<"c", "r", "i", "m", "i", "n", "a", "l">>, <<"j", "u", "s", "t", "i", "c", "e">>,
       <<"v", "i", "o", "l", "a", "t", "i", "o", "n">>, <<"p", "e", "n", "a", "l", "t", "y">>,
       <<"f", "i", "n", "e">>, <<"c", "o", "m", "p", "l", "i", "a", "n", "c", "e">>,
       <<"r", "e", "g", "u", "l", "a", "t", "o", "r", "y">>,
       <<"i", "n", "s", "u", "r", "a", "n", "c", "e">>, <<"t", "d", "i">>,
       <<"t", "x", "d", "p", "s">>, <<"b", "a", "r">>, <<"l", "a", "w", "y", "e", "r">>,
       <<"f", "i", "l", "i", "n", "g">>, <<"c", "a", "s", "e">>, <<"j", "u", "d", "g", "e">>,
       <<"p", "r", "o", "s", "e", "c", "u", "t", "o", "r">>, <<"d", "e", "f", "e", "n", "s", "e">>,
       <<"l", "i", "t", "i", "g", "a", "t", "i", "o", "n">>, <<"t", "a", "r", "r", "a", "n", "t">>,
       <<"h", "a", "r", "r", "i", "s">>, <<"d", "a", "l", "l", "a", "s">>,
       <<"t", "r", "a", "v", "i", "s">>, <<"b", "e", "x", "a", "r">>, <<"b", "e", "l", "l">>,
       <<"c", "h", "i", "l", "d">>, <<"a", "b", "u", "s", "e">>,
       <<"n", "e", "g", "l", "e", "c", "t">>, <<"p", "r", "i", "s", "o", "n">>,
       <<"r", "e", "l", "e", "a", "s", "e">>, <<"i", "n", "m", "a", "t", "e">>,
       <<"t", "d", "c", "j">>, <<"t", "d", "l", "r">>, <<"b", "i", "l", "l">>,
       <<"l", "e", "g", "i", "s", "l", "a", "t", "i", "o", "n">>,
       <<"s", "e", "s", "s", "i", "o", "n">> >>
legalKeywords(c) == IF c = "single" THEN legalKeywordsSingle ELSE legalKeywordsMulti

\* the text the relevance filter searches
RelevanceText(c, ds) ==
    IF c = "single"
    THEN ToLowerCase(Str(ds.name) \o <<" ">> \o Str(ds.description) \o <<" ">>
                     \o Str(ds.category) \o <<" ">> \o Join(ds.tags))
    ELSE ToLowerCase(Str(ds.name) \o <<" ">> \o OrElse(ds.description, <<>>))

\* legalKeywords.some(kw => text.includes(kw))
Some(kws, text) == \E i \in DOMAIN kws : Includes(text, kws[i])
Relevant(c, ds) == Some(legalKeywords(c), RelevanceText(c, ds))

\* the keywords tested by the three branches of the categorisation
lawKeywordsSingle ==
    << <<"c", "o", "u", "r", "t">>, <<"c", "a", "s", "e">>, <<"f", "i", "l", "i", "n", "g">>,
       <<"c", "r", "i", "m", "i", "n", "a", "l">>,
       <<"p", "r", "o", "s", "e", "c", "u", "t", "i", "o", "n">>, <<"d", "p", "s">>,
       <<"c", "r", "i", "m", "e">>, <<"v", "i", "o", "l", "a", "t", "i", "o", "n">>,
       <<"p", "e", "n", "a", "l", "t", "y">> >>
lawKeywordsMulti ==
    << <<"c", "o", "u", "r", "t">>, <<"c", "a", "s", "e">>, <<"f", "i", "l", "i", "n", "g">>,
       <<"c", "r", "i", "m", "i", "n", "a", "l">>,
       <<"p", "r", "o", "s", "e", "c", "u", "t", "i", "o", "n">>, <<"d", "p", "s">>,
       <<"c", "r", "i", "m", "e">>, <<"v", "i", "o", "l", "a", "t", "i", "o", "n">>,
       <<"p", "e", "n", "a", "l", "t", "y">>, <<"p", "r", "i", "s", "o", "n">>,
       <<"i", "n", "m", "a", "t", "e">>, <<"r", "e", "l", "e", "a", "s", "e">>,
       <<"s", "t", "a", "t", "u", "t", "e">>,
       <<"p", "e", "n", "a", "l", " ", "c", "o", "d", "e">> >>
lawKeywords(c) == IF c = "single" THEN lawKeywordsSingle ELSE lawKeywordsMulti
newsKeywords ==
    << <<"n", "e", "w", "s">>, <<"r", "e", "p", "o", "r", "t">>, <<"p", "r", "e", "s", "s">>,
       <<"p", "u", "b", "l", "i", "c", "a", "t", "i", "o", "n">>,
       <<"a", "n", "n", "o", "u", "n", "c", "e", "m", "e", "n", "t">> >>
attorneyKeywords ==
    << <<"a", "t", "t", "o", "r", "n", "e", "y">>, <<"l", "a", "w", "y", "e", "r">>,
       <<"l", "i", "c", "e", "n", "s", "e">>, <<"b", "a", "r">>, <<"p", "e", "r", "m", "i", "t">>,
       <<"c", "o", "m", "p", "l", "i", "a", "n", "c", "e">> >>

\* the text the categorisation searches
CategoryText(c, ds) ==
    IF c = "single"
    THEN ToLowerCase(Str(ds.name) \o <<" ">> \o Str(ds.description))
    ELSE ToLowerCase(Str(ds.name) \o <<" ">> \o OrElse(ds.description, <<>>))

\* a categorisation that tests the NEWS keywords first
CategoryNewsFirst(c, ds) ==
    LET text == CategoryText(c, ds) IN
    IF Some(newsKeywords, text) THEN "NEWS"
    ELSE IF Some(lawKeywords(c), text) THEN "LAW_VERIFICATION"
    ELSE IF Some(attorneyKeywords, text) THEN "ATTORNEY_RESOURCE"
    ELSE "LAW_VERIFICATION"

\* the if / else if chain of the forEach
Category(c, ds) ==
    LET text == CategoryText(c, ds) IN
    IF Some(lawKeywords(c), text) THEN "LAW_VERIFICATION"
    ELSE IF Some(newsKeywords, text) THEN "NEWS"
    ELSE IF Some(attorneyKeywords, text) THEN "ATTORNEY_RESOURCE"
    ELSE "LAW_VERIFICATION"

\* exportLegalCSV: let category = 'LAW_VERIFICATION'; if (news | report |
\* press) category = 'NEWS'; else if (attorney | license | bar) category =
\* 'ATTORNEY_RESOURCE'
csvNewsKeywords ==
    << <<"n", "e", "w", "s">>, <<"r", "e", "p", "o", "r", "t">>, <<"p", "r", "e", "s", "s">> >>
csvAttorneyKeywords ==
    << <<"a", "t", "t", "o", "r", "n", "e", "y">>, <<"l", "i", "c", "e", "n", "s", "e">>,
       <<"b", "a", "r">> >>
CsvCategory(ds) ==
    LET text == ToLowerCase(Str(ds.name) \o <<" ">> \o OrElse(ds.description, <<>>)) IN
    IF Some(csvNewsKeywords, text) THEN "NEWS"
    ELSE IF Some(csvAttorneyKeywords, text) THEN "ATTORNEY_RESOURCE"
    ELSE "LAW_VERIFICATION"

\* the two functions, tabulated once per catalogue item
relevantOf == [c \in Crawlers |-> [k \in Keys |-> Relevant(c, Record(k))]]
categoryOf == [c \in Crawlers |-> [k \in Keys |-> Category(c, Record(k))]]
csvCategoryOf == [k \in Keys |-> CsvCategory(Record(k))]

\* this.categorized = { LAW_VERIFICATION: [], NEWS: [], ATTORNEY_RESOURCE: [] }
Categories == {"LAW_VERIFICATION", "NEWS", "ATTORNEY_RESOURCE"}
EmptyBuckets == [b \in Categories |-> <<>>]

\* a forEach that stores only the records matching a keyword
RECURSIVE CategorizeNoFallback(_, _)
CategorizeNoFallback(buckets, list) ==
    IF list = <<>> THEN buckets
    ELSE LET ds == Head(list)
             text == CategoryText(crawler, Record(ds))
             hit == Some(lawKeywords(crawler), text) \/ Some(newsKeywords, text)
                    \/ Some(attorneyKeywords, text)
         IN CategorizeNoFallback(
               IF hit THEN [buckets EXCEPT ![categoryOf[crawler][ds]] = Append(@, ds)]
               ELSE buckets,
               Tail(list))

\* this.legalDatasets.forEach(ds => { ... this.categorized.X.push(ds) })
RECURSIVE Categorize(_, _)
Categorize(buckets, list) ==
    IF list = <<>> THEN buckets
    ELSE Categorize([buckets EXCEPT ![categoryOf[crawler][Head(list)]] = Append(@, Head(list))],
                    Tail(list))

\* ------------------------------------------------------------------ run(): helpers
\* initBrowser() has returned: the statement of run() that follows it
AfterInitBrowser == IF crawler = "multi" THEN "crawlAllSources" ELSE "filter"

\* onopen of the socket created by connect(): connect() resolves
ConnectOpen ==
    /\ Suspended
    /\ ws = "CONNECTING"
    /\ ws' = "OPEN"
    /\ opened' = TRUE
    /\ pc' = IF pc = "ib_connect" THEN AfterInitBrowser ELSE pc
    /\ UNCHANGED <<browser, id, pending, calls, settled, resolved, dropped,
                   uncaught, released, taskVars, crawler, withBrowser, stages,
                   datasets, socrataSet, scraped, apiReach, legalDatasets, classVars, deepMeta,
                   idx, reachable, total, scored, exported, thrown>>

\* onerror of that socket: connect() rejects; initBrowser catches and returns false
ConnectError ==
    /\ Suspended
    /\ ws = "CONNECTING"
    /\ ws' = "CLOSED"
    /\ pc' = IF pc = "ib_connect" THEN AfterInitBrowser ELSE pc
    /\ UNCHANGED <<browser, id, pending, calls, settled, resolved, dropped,
                   uncaught, opened, released, taskVars, crawler, withBrowser, stages,
                   datasets, socrataSet, scraped, apiReach, legalDatasets, classVars, deepMeta,
                   idx, reachable, total, scored, exported, thrown>>

\* what an https.get can come to: an 'error' event, or a response with a
\* status code and a body that is JSON or not
HttpResponses ==
    {[kind |-> "error", status |-> 0, json |-> FALSE]}
    \cup [kind : {"response"}, status : {200, 301, 404}, json : BOOLEAN]

\* checkReachability(url): resolve(res.statusCode === 200); on 'error' resolve(false)
checkReachability(resp) == resp.kind = "response" /\ resp.status = 200

\* fetchJSON(url) resolves: the body parses as JSON (the status code is not read);
\* it rejects on 'error' and on a body that does not parse
fetchJSONResolves(resp) == resp.kind = "response" /\ resp.json

\* (reachable / total * 100).toFixed(1): the text of the rate rounded to
\* one decimal, kept as a number of tenths; 0 / 0 is NaN, whose text is "NaN"
NoRate == [kind |-> "unset", tenths |-> 0]
ToFixed1(r, t) ==
    IF t = 0 THEN [kind |-> "NaN", tenths |-> 0]
    ELSE [kind |-> "fixed", tenths |-> (2000 * r + t) \div (2 * t)]

\* const rate = ...: the single-source crawler always formats, the
\* multi-source one yields the number 0 when total is 0
Rate(c, r, t) ==
    IF c = "single" \/ t > 0 THEN ToFixed1(r, t)
    ELSE [kind |-> "number", tenths |-> 0]

\* ------------------------------------------------------------------ initial states
\* new CDPBrowser(wsUrl)
ClientFresh ==
    /\ ws = "null" /\ id = 1 /\ pending = {} /\ calls = <<>> /\ settled = <<>>
    /\ resolved = <<>> /\ dropped = FALSE /\ uncaught = "none"
    /\ opened = FALSE /\ released = 0
    /\ op = "idle" /\ awaiting = 0 /\ ret = "undefined" /\ timer = FALSE

\* Object.keys(TEXAS_DATA_SOURCES) without 'data.texas.gov': the browser-scrape
\* sources of the registry, counted by the entries this.datasets can take
SourceCount == Len(scraped)

\* new TexasDataCrawler() / new TexasMultiSourceCrawler()
RunFresh ==
    /\ stages = <<"INIT">> /\ datasets = <<>> /\ socrataSet = FALSE
    /\ scraped = [s \in 1..NumGeneric |-> [assigned |-> FALSE, recs |-> <<>>]]
    /\ apiReach = [s \in 0..NumGeneric |-> "unset"]
    /\ legalDatasets = <<>> /\ deepMeta = <<>> /\ idx = 0
    /\ categorized = EmptyBuckets /\ qualityScores = <<>> /\ filterRuns = 0
    /\ rate = NoRate /\ logged = {} /\ legalCsv = <<>>
    /\ reachable = 0 /\ total = 0 /\ scored = 0 /\ exported = <<>> /\ thrown = "none"

InitClient ==
    /\ ClientFresh /\ RunFresh
    /\ browser = "set" /\ crawler = "client" /\ withBrowser = TRUE /\ pc = "client"

NextClient ==
    \/ ClientConnect
    \/ ConnectOpen
    \/ ConnectError
    \/ ClientSend
    \/ ClientNavigate
    \/ ClientEvaluate
    \/ ClientWait
    \/ ClientClose
    \/ ClientReturn
    \/ \E msg \in Messages(id) : OnMessage(msg)
    \/ Resume
    \/ NavigatePageEnable
    \/ NavigatePageNavigate
    \/ TimerFire

SpecClient == InitClient /\ [][NextClient]_vars

\* ------------------------------------------------------------------ run()
\* The listings of a run hold two items of the catalogue: "legal", which the
\* relevance filter retains, and "other", which it does not.
Items == {"legal", "other"}
Listings(n) == UNION {[1..k -> Items] : k \in 0..n}

Min(a, b) == IF a < b THEN a ELSE b
IsLegal(item) == relevantOf[crawler][item]

\* a number attribute the record does not have (undefined)
NoNumber == -1

\* ds.description && ds.description.length > n, ds.tags && ds.tags.length > n:
\* an absent attribute is falsy, '' and [] have length 0
LengthOver(v, n) == v # Undefined /\ Len(v) > n

\* ds.viewCount > n: undefined > n is false
Over(v, n) == v # NoNumber /\ v > n

\* a scorer that also rewards a record for having a name
QualityScoreCountsName(ds) ==
    Min(100, 50 + (IF LengthOver(ds.description, 100) THEN 15 ELSE 0)
                + (IF LengthOver(ds.description, 300) THEN 10 ELSE 0)
                + (IF Over(ds.viewCount, 100) THEN 10 ELSE 0)
                + (IF Over(ds.downloadCount, 50) THEN 10 ELSE 0)
                + (IF LengthOver(ds.tags, 0) THEN 5 ELSE 0)
                + (IF ds.name # Undefined THEN 5 ELSE 0))

\* a scorer whose two description bonuses are alternatives, not cumulative
QualityScoreLongestOnly(ds) ==
    Min(100, 50 + (IF LengthOver(ds.description, 300) THEN 10
                   ELSE IF LengthOver(ds.description, 100) THEN 15 ELSE 0)
                + (IF Over(ds.viewCount, 100) THEN 10 ELSE 0)
                + (IF Over(ds.downloadCount, 50) THEN 10 ELSE 0)
                + (IF LengthOver(ds.tags, 0) THEN 5 ELSE 0))

\* the score of one record: let score = 50; ...; Math.min(100, score)
QualityScore(ds) ==
    Min(100, 50 + (IF LengthOver(ds.description, 100) THEN 15 ELSE 0)
                + (IF LengthOver(ds.description, 300) THEN 10 ELSE 0)
                + (IF Over(ds.viewCount, 100) THEN 10 ELSE 0)
                + (IF Over(ds.downloadCount, 50) THEN 10 ELSE 0)
                + (IF LengthOver(ds.tags, 0) THEN 5 ELSE 0))

\* this.legalDatasets.map(ds => ({ id, name, qualityScore }))
generateQualityScores ==
    [i \in DOMAIN legalDatasets |->
        [id |-> legalDatasets[i], qualityScore |-> QualityScore(Record(legalDatasets[i]))]]

\* a filterLegalDatasets() that keeps pushing into the buckets it already has
filterKeepsBuckets(all) ==
    /\ legalDatasets' = SelectSeq(all, IsLegal)
    /\ categorized' = Categorize(categorized, legalDatasets')
    /\ filterRuns' = filterRuns + 1
    /\ UNCHANGED <<qualityScores, rate, logged, legalCsv>>

\* filterLegalDatasets(): the relevant records, then the buckets from scratch
filterLegalDatasets(all) ==
    /\ legalDatasets' = SelectSeq(all, IsLegal)
    /\ categorized' = Categorize(EmptyBuckets, legalDatasets')
    /\ filterRuns' = filterRuns + 1
    /\ UNCHANGED <<qualityScores, rate, logged, legalCsv>>

\* exportLegalCSV: one row per record of this.legalDatasets, the category
\* computed anew from the record's text
exportLegalCSV ==
    [i \in DOMAIN legalDatasets |->
        [ds |-> legalDatasets[i], category |-> csvCategoryOf[legalDatasets[i]]]]

\* stage bookkeeping: the stage is logged when run() enters it
Enter(s) == stages' = IF stages[Len(stages)] = s THEN stages ELSE Append(stages, s)

\* files written by the export stage, in order
ExportFiles == IF crawler = "single" THEN <<"json", "csv", "langgraph">>
               ELSE <<"json", "csv", "legalcsv">>

\* run(): entry
RunStart ==
    /\ pc = "start" /\ uncaught = "none"
    /\ pc' = IF crawler = "single" THEN "discover"
             ELSE IF withBrowser THEN "initBrowser" ELSE "crawlAllSources"
    /\ UNCHANGED <<clientVars, taskVars, crawler, withBrowser, stages, datasets,
                   socrataSet, scraped, apiReach, legalDatasets, classVars, deepMeta, idx,
                   reachable, total, scored, exported, thrown>>

\* initBrowser(): http.get('http://localhost:9222/json')
InitBrowser ==
    /\ pc = "initBrowser" /\ uncaught = "none"
    /\ pc' = "ib_http"
    /\ Enter("BROWSER_INIT")
    /\ UNCHANGED <<clientVars, taskVars, crawler, withBrowser, datasets,
                   socrataSet, scraped, apiReach, legalDatasets, classVars, deepMeta, idx,
                   reachable, total, scored, exported, thrown>>

\* initBrowser(): the target list arrives (or the request fails).
\*   "error":   the request fails, the promise rejects, catch returns false
\*   "badjson": JSON.parse throws inside the 'end' listener, outside any try
\*   "notab":   no target matches (or the list is unusable): return false
\*   "tab":     this.browser = new CDPBrowser(url); await this.browser.connect()
InitBrowserTabs(outcome, ctorThrows) ==
    /\ pc = "ib_http" /\ uncaught = "none"
    /\ CASE outcome = "badjson" ->
              /\ uncaught' = "SyntaxError"
              /\ UNCHANGED <<browser, ws, pc>>
         [] outcome = "tab" ->
              /\ browser' = "set"
              /\ connect(ctorThrows)
              /\ pc' = IF ctorThrows THEN AfterInitBrowser ELSE "ib_connect"
              /\ UNCHANGED uncaught
         [] OTHER ->
              /\ pc' = AfterInitBrowser
              /\ UNCHANGED <<browser, ws, uncaught>>
    /\ UNCHANGED <<id, pending, calls, settled, resolved, dropped, opened, released,
                   taskVars, crawler, withBrowser, stages, datasets, socrataSet,
                   scraped, apiReach, legalDatasets, classVars, deepMeta, idx, reachable, total,
                   scored, exported, thrown>>

\* TexasDataCrawler.discoverDatasetsViaAPI: the listing request is issued
Discover ==
    /\ pc = "discover" /\ uncaught = "none"
    /\ pc' = "discover_http"
    /\ Enter("DISCOVERING")
    /\ UNCHANGED <<clientVars, taskVars, crawler, withBrowser, datasets,
                   socrataSet, scraped, apiReach, legalDatasets, classVars, deepMeta, idx,
                   reachable, total, scored, exported, thrown>>

\* discoverDatasetsViaAPI: fetchJSON settles.  A rejection (network error,
\* unparseable body) or a body that is no array throws out of run()'s try.
DiscoverResponse(ok, list) ==
    /\ pc = "discover_http" /\ uncaught = "none"
    /\ IF ok
       THEN /\ datasets' = list
            /\ pc' = IF withBrowser THEN "initBrowser" ELSE "filter"
            /\ UNCHANGED thrown
       ELSE /\ thrown' = "DISCOVERING"
            /\ pc' = "catch"
            /\ UNCHANGED datasets
    /\ UNCHANGED <<clientVars, taskVars, crawler, withBrowser, stages,
                   socrataSet, scraped, apiReach, legalDatasets, classVars, deepMeta, idx,
                   reachable, total, scored, exported>>

\* TexasMultiSourceCrawler.crawlAllSources -> crawlSocrata('data.texas.gov')
CrawlSocrata ==
    /\ pc = "crawlAllSources" /\ uncaught = "none"
    /\ pc' = "socrata_http"
    /\ Enter("DISCOVERING")
    /\ UNCHANGED <<clientVars, taskVars, crawler, withBrowser, datasets,
                   socrataSet, scraped, apiReach, legalDatasets, classVars, deepMeta, idx,
                   reachable, total, scored, exported, thrown>>

\* a crawlAllSources that loops over the other sources without testing
\* this.browser
SocrataResponseAlwaysLoops(ok, list) ==
    /\ pc = "socrata_http" /\ uncaught = "none"
    /\ IF ok
       THEN /\ datasets' = list
            /\ socrataSet' = TRUE
            /\ apiReach' = [apiReach EXCEPT ![0] = "true"]
       ELSE /\ apiReach' = [apiReach EXCEPT ![0] = "false"]
            /\ UNCHANGED <<datasets, socrataSet>>
    /\ pc' = "crawlGeneric" /\ idx' = 1
    /\ UNCHANGED <<clientVars, taskVars, crawler, withBrowser, stages,
                   scraped, legalDatasets, classVars, deepMeta,
                   reachable, total, scored, exported, thrown>>

\* crawlSocrata: fetchJSON settles; its own try/catch absorbs a failure.
\* Then crawlAllSources loops over the other sources if (this.browser).
SocrataResponse(ok, list) ==
    /\ pc = "socrata_http" /\ uncaught = "none"
    /\ IF ok
       THEN /\ datasets' = list
            /\ socrataSet' = TRUE
            /\ apiReach' = [apiReach EXCEPT ![0] = "true"]
       ELSE /\ apiReach' = [apiReach EXCEPT ![0] = "false"]
            /\ UNCHANGED <<datasets, socrataSet>>
    /\ IF browser = "set" /\ SourceCount >= 1
       THEN pc' = "crawlGeneric" /\ idx' = 1
       ELSE pc' = "filter" /\ idx' = 0
    /\ UNCHANGED <<clientVars, taskVars, crawler, withBrowser, stages,
                   scraped, legalDatasets, classVars, deepMeta,
                   reachable, total, scored, exported, thrown>>

\* crawlGeneric(source): checkReachability(config.baseUrl) is issued
CrawlGeneric ==
    /\ pc = "crawlGeneric" /\ uncaught = "none"
    /\ pc' = "cg_reach"
    /\ Enter("FETCHING_REMAINING_SOURCES")
    /\ UNCHANGED <<clientVars, taskVars, crawler, withBrowser, datasets,
                   socrataSet, scraped, apiReach, legalDatasets, classVars, deepMeta, idx,
                   reachable, total, scored, exported, thrown>>

\* crawlGeneric returned: the for loop of crawlAllSources goes on
NextSourcePc == IF idx < SourceCount THEN "crawlGeneric" ELSE "filter"
NextSourceIdx == IF idx < SourceCount THEN idx + 1 ELSE 0

\* a crawlGeneric that drives the browser whatever the probe reported
CrawlGenericReachIgnoresProbe(r) ==
    /\ pc = "cg_reach" /\ uncaught = "none"
    /\ apiReach' = [apiReach EXCEPT ![idx] = IF r THEN "true" ELSE "false"]
    /\ IF browser = "set"
       THEN /\ navigate
            /\ pc' = "cg_nav"
            /\ UNCHANGED idx
       ELSE /\ pc' = NextSourcePc
            /\ idx' = NextSourceIdx
            /\ UNCHANGED <<id, pending, calls, settled, taskVars>>
    /\ UNCHANGED <<browser, ws, resolved, dropped, uncaught, opened, released,
                   crawler, withBrowser, stages, datasets, socrataSet, scraped,
                   legalDatasets, classVars, deepMeta, reachable, total, scored, exported, thrown>>

\* crawlGeneric: the probe settles; unreachable or no browser returns [],
\* otherwise await this.browser.navigate(config.baseUrl)
CrawlGenericReach(r) ==
    /\ pc = "cg_reach" /\ uncaught = "none"
    /\ apiReach' = [apiReach EXCEPT ![idx] = IF r THEN "true" ELSE "false"]
    /\ IF r /\ browser = "set"
       THEN /\ navigate
            /\ pc' = "cg_nav"
            /\ UNCHANGED idx
       ELSE /\ pc' = NextSourcePc
            /\ idx' = NextSourceIdx
            /\ UNCHANGED <<id, pending, calls, settled, taskVars>>
    /\ UNCHANGED <<browser, ws, resolved, dropped, uncaught, opened, released,
                   crawler, withBrowser, stages, datasets, socrataSet, scraped,
                   legalDatasets, classVars, deepMeta, reachable, total, scored, exported, thrown>>

\* crawlGeneric: navigate returned: await this.browser.wait(2000);
\* navigate threw: the catch logs it and returns []
CrawlGenericNavigated ==
    /\ pc = "cg_nav" /\ uncaught = "none"
    /\ op \in {"returned", "threw"}
    /\ IF op = "returned"
       THEN /\ wait
            /\ pc' = "cg_wait"
            /\ UNCHANGED idx
       ELSE /\ op' = "idle"
            /\ pc' = NextSourcePc
            /\ idx' = NextSourceIdx
            /\ UNCHANGED <<awaiting, ret, timer>>
    /\ logged' = IF op = "threw" THEN logged \cup {<<"crawlGeneric", idx>>} ELSE logged
    /\ UNCHANGED <<clientVars, crawler, withBrowser, stages, datasets, socrataSet,
                   scraped, apiReach, legalDatasets, categorized, qualityScores,
                   filterRuns, rate, legalCsv, deepMeta, reachable, total,
                   scored, exported, thrown>>

\* crawlGeneric: the settle delay is over: await this.browser.evaluate(...)
CrawlGenericWaited ==
    /\ pc = "cg_wait" /\ uncaught = "none"
    /\ op = "returned"
    /\ evaluate
    /\ pc' = "cg_eval"
    /\ UNCHANGED <<browser, ws, resolved, dropped, uncaught, opened, released,
                   crawler, withBrowser, stages, datasets, socrataSet, scraped,
                   apiReach, legalDatasets, classVars, deepMeta, idx, reachable, total, scored,
                   exported, thrown>>

\* a crawlGeneric without the try/catch: what the fetch throws leaves
\* crawlAllSources and reaches the catch of run()
CrawlGenericEvaluatedNoCatch(parses, recs) ==
    /\ pc = "cg_eval" /\ uncaught = "none"
    /\ op \in {"returned", "threw"}
    /\ IF op = "returned" /\ ret = "value" /\ parses
       THEN /\ scraped' = [scraped EXCEPT ![idx] = [assigned |-> TRUE, recs |-> recs]]
            /\ pc' = NextSourcePc
            /\ idx' = NextSourceIdx
            /\ UNCHANGED thrown
       ELSE /\ recs = <<>>
            /\ thrown' = "FETCHING_REMAINING_SOURCES"
            /\ pc' = "catch"
            /\ UNCHANGED <<scraped, idx>>
    /\ op' = "idle"
    /\ ret' = "undefined"
    /\ UNCHANGED <<clientVars, awaiting, timer, crawler, withBrowser, stages,
                   datasets, socrataSet, apiReach, legalDatasets, classVars, deepMeta,
                   reachable, total, scored, exported>>

\* crawlGeneric: evaluate returned: JSON.parse(links) (parses: the text is
\* JSON), filter by the source's keywords, this.datasets[source] = ...;
\* anything thrown is caught: return []
CrawlGenericEvaluated(parses, recs) ==
    /\ pc = "cg_eval" /\ uncaught = "none"
    /\ op \in {"returned", "threw"}
    /\ IF op = "returned" /\ ret = "value" /\ parses
       THEN scraped' = [scraped EXCEPT ![idx] = [assigned |-> TRUE, recs |-> recs]]
       ELSE recs = <<>> /\ UNCHANGED scraped
    /\ logged' = IF op = "returned" /\ ret = "value" /\ parses THEN logged
                 ELSE logged \cup {<<"crawlGeneric", idx>>}
    /\ op' = "idle"
    /\ ret' = "undefined"
    /\ pc' = NextSourcePc
    /\ idx' = NextSourceIdx
    /\ UNCHANGED <<clientVars, awaiting, timer, crawler, withBrowser, stages,
                   datasets, socrataSet, apiReach, legalDatasets, categorized, qualityScores,
                   filterRuns, rate, legalCsv, deepMeta,
                   reachable, total, scored, exported, thrown>>

\* every harvested record, in the order filterLegalDatasets collects them
RECURSIVE ScrapedFrom(_)
ScrapedFrom(s) == IF s > SourceCount THEN <<>> ELSE scraped[s].recs \o ScrapedFrom(s + 1)
AllDatasets == datasets \o ScrapedFrom(1)

\* filterLegalDatasets()
FilterLegalDatasets ==
    /\ pc = "filter" /\ uncaught = "none"
    /\ filterLegalDatasets(AllDatasets)
    /\ Enter("CLASSIFYING")
    /\ pc' = IF crawler = "single" /\ browser = "set" THEN "deep" ELSE "measure"
    /\ UNCHANGED <<clientVars, taskVars, crawler, withBrowser, datasets,
                   socrataSet, scraped, apiReach, deepMeta, idx,
                   reachable, total, scored, exported, thrown>>

\* extractDeepMetadata(ids): ids.slice(0, 10), first navigate
DeepCount == Min(DeepLimit, Len(legalDatasets))

ExtractDeepMetadata ==
    /\ pc = "deep" /\ uncaught = "none"
    /\ Enter("DEEP_INSPECTION")
    /\ IF DeepCount = 0
       THEN /\ pc' = "measure"
            /\ UNCHANGED <<id, pending, calls, settled, taskVars, idx>>
       ELSE /\ navigate
            /\ idx' = 1
            /\ pc' = "deep_nav"
    /\ UNCHANGED <<browser, ws, resolved, dropped, uncaught, opened, released,
                   crawler, withBrowser, datasets, socrataSet, scraped, apiReach,
                   legalDatasets, classVars, deepMeta, reachable, total, scored, exported, thrown>>

\* extractDeepMetadata: navigate returned: wait(2000); navigate threw: the
\* catch logs it and the loop goes on with the next id
DeepNavigated ==
    /\ pc = "deep_nav" /\ uncaught = "none"
    /\ op \in {"returned", "threw"}
    /\ IF op = "returned"
       THEN /\ wait
            /\ pc' = "deep_wait"
            /\ UNCHANGED <<id, pending, calls, settled, idx>>
       ELSE IF idx < DeepCount
       THEN /\ navigate
            /\ idx' = idx + 1
            /\ pc' = "deep_nav"
       ELSE /\ op' = "idle"
            /\ pc' = "measure"
            /\ idx' = 0
            /\ UNCHANGED <<id, pending, calls, settled, awaiting, ret, timer>>
    /\ logged' = IF op = "threw" THEN logged \cup {<<"extractDeepMetadata", idx>>} ELSE logged
    /\ UNCHANGED <<browser, ws, resolved, dropped, uncaught, opened, released,
                   crawler, withBrowser, stages, datasets, socrataSet, scraped,
                   apiReach, legalDatasets, categorized, qualityScores,
                   filterRuns, rate, legalCsv, deepMeta, reachable, total, scored,
                   exported, thrown>>

DeepWaited ==
    /\ pc = "deep_wait" /\ uncaught = "none"
    /\ op = "returned"
    /\ evaluate
    /\ pc' = "deep_eval"
    /\ UNCHANGED <<browser, ws, resolved, dropped, uncaught, opened, released,
                   crawler, withBrowser, stages, datasets, socrataSet, scraped,
                   apiReach, legalDatasets, classVars, deepMeta, idx, reachable, total, scored,
                   exported, thrown>>

\* an extractDeepMetadata whose try encloses the for loop: the first
\* failure ends the loop
DeepEvaluatedStopsOnError(parses) ==
    /\ pc = "deep_eval" /\ uncaught = "none"
    /\ op \in {"returned", "threw"}
    /\ deepMeta' = IF op = "returned" /\ ret = "value" /\ parses THEN Append(deepMeta, idx)
                   ELSE deepMeta
    /\ logged' = IF op = "returned" /\ ret = "value" /\ parses THEN logged
                 ELSE logged \cup {<<"extractDeepMetadata", idx>>}
    /\ IF idx < DeepCount /\ op = "returned" /\ ret = "value" /\ parses
       THEN /\ navigate
            /\ idx' = idx + 1
            /\ pc' = "deep_nav"
       ELSE /\ op' = "idle"
            /\ ret' = "undefined"
            /\ pc' = "measure"
            /\ idx' = 0
            /\ UNCHANGED <<id, pending, calls, settled, awaiting, timer>>
    /\ UNCHANGED <<browser, ws, resolved, dropped, uncaught, opened, released,
                   crawler, withBrowser, stages, datasets, socrataSet, scraped,
                   apiReach, legalDatasets, categorized, qualityScores,
                   filterRuns, rate, legalCsv, reachable, total, scored, exported, thrown>>

\* extractDeepMetadata: evaluate returned: JSON.parse(meta) (parses: the text
\* is JSON), push; a throw is caught and logged; then the next id, or return
DeepEvaluated(parses) ==
    /\ pc = "deep_eval" /\ uncaught = "none"
    /\ op \in {"returned", "threw"}
    /\ deepMeta' = IF op = "returned" /\ ret = "value" /\ parses THEN Append(deepMeta, idx)
                   ELSE deepMeta
    /\ logged' = IF op = "returned" /\ ret = "value" /\ parses THEN logged
                 ELSE logged \cup {<<"extractDeepMetadata", idx>>}
    /\ IF idx < DeepCount
       THEN /\ navigate
            /\ idx' = idx + 1
            /\ pc' = "deep_nav"
       ELSE /\ op' = "idle"
            /\ ret' = "undefined"
            /\ pc' = "measure"
            /\ idx' = 0
            /\ UNCHANGED <<id, pending, calls, settled, awaiting, timer>>
    /\ UNCHANGED <<browser, ws, resolved, dropped, uncaught, opened, released,
                   crawler, withBrowser, stages, datasets, socrataSet, scraped,
                   apiReach, legalDatasets, categorized, qualityScores,
                   filterRuns, rate, legalCsv, reachable, total, scored, exported, thrown>>

\* measureAPIReachability(): the per-dataset probes to make
ProbeCount == IF crawler = "single" THEN Min(ProbeLimitSingle, Len(datasets))
              ELSE IF socrataSet THEN Min(ProbeLimitMulti, Len(datasets)) ELSE 0

\* measureAPIReachability(): counters set, first probe issued
MeasureAPIReachability ==
    /\ pc = "measure" /\ uncaught = "none"
    /\ Enter("PROBING_REACHABILITY")
    /\ reachable' = 0
    /\ total' = IF crawler = "single" THEN ProbeCount ELSE 0
    /\ IF ProbeCount > 0 THEN pc' = "probe_ds" /\ idx' = 1
       ELSE IF crawler = "multi" /\ SourceCount >= 1 THEN pc' = "probe_src" /\ idx' = 1
       ELSE pc' = "score" /\ idx' = 0
    /\ rate' = IF pc' = "score" THEN Rate(crawler, reachable', total') ELSE rate
    /\ UNCHANGED <<clientVars, taskVars, crawler, withBrowser, datasets,
                   socrataSet, scraped, apiReach, legalDatasets, categorized, qualityScores,
                   filterRuns, logged, legalCsv, deepMeta,
                   scored, exported, thrown>>

\* measureAPIReachability(): fetchJSON of one resource endpoint settles
ProbeDataset(ok) ==
    /\ pc = "probe_ds" /\ uncaught = "none"
    /\ reachable' = IF ok THEN reachable + 1 ELSE reachable
    /\ total' = IF crawler = "multi" THEN total + 1 ELSE total
    /\ IF idx < ProbeCount THEN pc' = "probe_ds" /\ idx' = idx + 1
       ELSE IF crawler = "multi" /\ SourceCount >= 1 THEN pc' = "probe_src" /\ idx' = 1
       ELSE pc' = "score" /\ idx' = 0
    /\ rate' = IF pc' = "score" THEN Rate(crawler, reachable', total') ELSE rate
    /\ UNCHANGED <<clientVars, taskVars, crawler, withBrowser, stages, datasets,
                   socrataSet, scraped, apiReach, legalDatasets, categorized, qualityScores,
                   filterRuns, logged, legalCsv, deepMeta,
                   scored, exported, thrown>>

\* TexasMultiSourceCrawler.measureAPIReachability(): checkReachability of one
\* source's base url settles
ProbeSource(r) ==
    /\ pc = "probe_src" /\ uncaught = "none"
    /\ total' = total + 1
    /\ apiReach' = [apiReach EXCEPT ![idx] = IF r THEN "true" ELSE "false"]
    /\ reachable' = IF r THEN reachable + 1 ELSE reachable
    /\ IF idx < SourceCount THEN pc' = "probe_src" /\ idx' = idx + 1
       ELSE pc' = "score" /\ idx' = 0
    /\ rate' = IF pc' = "score" THEN Rate(crawler, reachable', total') ELSE rate
    /\ UNCHANGED <<clientVars, taskVars, crawler, withBrowser, stages, datasets,
                   socrataSet, scraped, legalDatasets, categorized, qualityScores,
                   filterRuns, logged, legalCsv, deepMeta,
                   scored, exported, thrown>>

\* a scoring step that goes back to probing when nothing was reachable
ScoreRetriesProbing ==
    /\ pc = "score" /\ uncaught = "none"
    /\ Enter("SCORING")
    /\ scored' = scored + 1
    /\ qualityScores' = generateQualityScores
    /\ pc' = IF reachable = 0 /\ scored = 0 THEN "measure" ELSE "export"
    /\ UNCHANGED <<clientVars, taskVars, crawler, withBrowser, datasets,
                   socrataSet, scraped, apiReach, legalDatasets, categorized, filterRuns, rate, logged, legalCsv,
                   deepMeta, idx,
                   reachable, total, exported, thrown>>

\* generateQualityScores()
GenerateQualityScores ==
    /\ pc = "score" /\ uncaught = "none"
    /\ Enter("SCORING")
    /\ scored' = scored + 1
    /\ qualityScores' = generateQualityScores
    /\ pc' = "export"
    /\ UNCHANGED <<clientVars, taskVars, crawler, withBrowser, datasets,
                   socrataSet, scraped, apiReach, legalDatasets, categorized, filterRuns, rate, logged, legalCsv,
                   deepMeta, idx,
                   reachable, total, exported, thrown>>

\* the export stage: one fs.writeFileSync per step; a write that throws leaves
\* the try block.  exportForLangGraph calls generateQualityScores() again
\* before it writes.
ExportWrite(ok) ==
    /\ pc = "export" /\ uncaught = "none"
    /\ Enter("EXPORTING")
    /\ LET file == ExportFiles[Len(exported) + 1] IN
       /\ scored' = IF file = "langgraph" THEN scored + 1 ELSE scored
       /\ legalCsv' = IF ok /\ file = "legalcsv" THEN exportLegalCSV ELSE legalCsv
       /\ IF ok
          THEN /\ exported' = Append(exported, file)
               /\ pc' = IF Len(exported) + 1 = Len(ExportFiles) THEN "done" ELSE "export"
               /\ UNCHANGED thrown
          ELSE /\ thrown' = "EXPORTING"
               /\ pc' = "catch"
               /\ UNCHANGED exported
    /\ UNCHANGED <<clientVars, taskVars, crawler, withBrowser, datasets,
                   socrataSet, scraped, apiReach, legalDatasets, categorized, qualityScores,
                   filterRuns, rate, logged, deepMeta, idx, reachable, total>>

\* the try block of run() ran to its end: the summary is logged
Done ==
    /\ pc = "done" /\ uncaught = "none"
    /\ Enter("DONE")
    /\ pc' = "finally"
    /\ UNCHANGED <<clientVars, taskVars, crawler, withBrowser, datasets,
                   socrataSet, scraped, apiReach, legalDatasets, classVars, deepMeta, idx,
                   reachable, total, scored, exported, thrown>>

\* catch (e) { console.error('Error:', e.message) }
Catch ==
    /\ pc = "catch" /\ uncaught = "none"
    /\ Enter("CLEANUP")
    /\ pc' = "finally"
    /\ UNCHANGED <<clientVars, taskVars, crawler, withBrowser, datasets,
                   socrataSet, scraped, apiReach, legalDatasets, classVars, deepMeta, idx,
                   reachable, total, scored, exported, thrown>>

\* a run() that closes the browser as the last statement of its try block
FinallyOnSuccessOnly ==
    /\ pc = "finally" /\ uncaught = "none"
    /\ IF browser = "set" /\ thrown = "none" THEN close
       ELSE UNCHANGED <<ws, released, pending, settled>>
    /\ pc' = "ended"
    /\ UNCHANGED <<browser, id, calls, resolved, dropped,
                   uncaught, opened, taskVars, crawler, withBrowser, stages,
                   datasets, socrataSet, scraped, apiReach, legalDatasets, classVars, deepMeta,
                   idx, reachable, total, scored, exported, thrown>>

\* finally { this.browser?.close() }
Finally ==
    /\ pc = "finally" /\ uncaught = "none"
    /\ IF browser = "set" THEN close ELSE UNCHANGED <<ws, released, pending, settled>>
    /\ pc' = "ended"
    /\ UNCHANGED <<browser, id, calls, resolved, dropped,
                   uncaught, opened, taskVars, crawler, withBrowser, stages,
                   datasets, socrataSet, scraped, apiReach, legalDatasets, classVars, deepMeta,
                   idx, reachable, total, scored, exported, thrown>>

\* crawler.run(process.argv.includes('--browser'))
InitRun ==
    /\ ClientFresh /\ RunFresh
    /\ browser = "null" /\ pc = "start"
    /\ crawler \in {"single", "multi"}
    /\ withBrowser \in BOOLEAN

NextRun ==
    \/ RunStart
    \/ InitBrowser
    \/ \E outcome \in {"error", "badjson", "notab", "tab"}, ctorThrows \in BOOLEAN :
          InitBrowserTabs(outcome, ctorThrows)
    \/ ConnectOpen
    \/ ConnectError
    \/ Discover
    \/ \E ok \in BOOLEAN, list \in Listings(MaxItems) : DiscoverResponse(ok, list)
    \/ CrawlSocrata
    \/ \E ok \in BOOLEAN, list \in Listings(MaxItems) : SocrataResponse(ok, list)
    \/ CrawlGeneric
    \/ \E resp \in HttpResponses : CrawlGenericReach(checkReachability(resp))
    \/ CrawlGenericNavigated
    \/ CrawlGenericWaited
    \/ \E parses \in BOOLEAN, recs \in Listings(MaxLinks) : CrawlGenericEvaluated(parses, recs)
    \/ FilterLegalDatasets
    \/ ExtractDeepMetadata
    \/ DeepNavigated
    \/ DeepWaited
    \/ \E parses \in BOOLEAN : DeepEvaluated(parses)
    \/ MeasureAPIReachability
    \/ \E resp \in HttpResponses : ProbeDataset(fetchJSONResolves(resp))
    \/ \E resp \in HttpResponses : ProbeSource(checkReachability(resp))
    \/ GenerateQualityScores
    \/ \E ok \in BOOLEAN : ExportWrite(ok)
    \/ Done
    \/ Catch
    \/ Finally
    \/ \E msg \in Messages(id) : OnMessage(msg)
    \/ Resume
    \/ NavigatePageEnable
    \/ NavigatePageNavigate
    \/ TimerFire

SpecRun == InitRun /\ [][NextRun]_vars

\* run() under an environment that answers.  Steps: any step of the run other
\* than the delivery of a message: a statement of the program, an HTTP
\* request that completes (with a response or an error), the socket that
\* opens or fails, the timer that fires.  Answers: the delivery of the
\* response to a command in the table.  Node runs whatever is runnable, so
\* the program's own steps are weakly fair; the two environment conditions
\* are the proviso of the termination claim.
Steps == NextRun /\ <<taskVars, runVars>>' # <<taskVars, runVars>>
Answers == \E msg \in Messages(id) : OnMessage(msg) /\ pending' # pending
SpecRunAnswered == SpecRun /\ WF_vars(Steps) /\ WF_vars(Answers)

\* ------------------------------------------------------------------ the classifier alone
\* discovery, filterLegalDatasets (any number of times) and generateQualityScores
\* on every listing of catalogue items, for either crawler
CatalogueListings(n) == UNION {[1..k -> Keys] : k \in 0..n}

InitClassify ==
    /\ ClientFresh /\ RunFresh
    /\ browser = "null" /\ withBrowser = FALSE /\ pc = "cl_harvest"
    /\ crawler \in Crawlers

\* the listing arrives and is mapped to this.datasets
ClassifyHarvest ==
    /\ pc = "cl_harvest"
    /\ datasets' \in CatalogueListings(MaxRecords)
    /\ socrataSet' = (crawler = "multi")
    /\ pc' = "cl_filter"
    /\ UNCHANGED <<clientVars, taskVars, crawler, withBrowser, stages, scraped,
                   apiReach, legalDatasets, classVars, deepMeta, idx, reachable,
                   total, scored, exported, thrown>>

\* filterLegalDatasets() is called (again)
ClassifyFilter ==
    /\ pc = "cl_filter"
    /\ filterRuns < MaxFilterRuns
    /\ filterLegalDatasets(AllDatasets)
    /\ UNCHANGED <<clientVars, taskVars, crawler, withBrowser, pc, stages, datasets,
                   socrataSet, scraped, apiReach, deepMeta, idx, reachable, total,
                   scored, exported, thrown>>

\* generateQualityScores() is called on the classified records
ClassifyScore ==
    /\ pc = "cl_filter"
    /\ filterRuns >= 1
    /\ qualityScores' = generateQualityScores
    /\ scored' = scored + 1
    /\ pc' = "cl_scored"
    /\ UNCHANGED <<clientVars, taskVars, crawler, withBrowser, stages, datasets,
                   socrataSet, scraped, apiReach, legalDatasets, categorized,
                   filterRuns, rate, logged, legalCsv, deepMeta, idx, reachable, total, exported, thrown>>

\* TexasMultiSourceCrawler.exportAll -> exportLegalCSV on the classified records
ClassifyExport ==
    /\ pc = "cl_scored"
    /\ crawler = "multi"
    /\ legalCsv' = exportLegalCSV
    /\ exported' = Append(exported, "legalcsv")
    /\ pc' = "cl_exported"
    /\ UNCHANGED <<clientVars, taskVars, crawler, withBrowser, stages, datasets,
                   socrataSet, scraped, apiReach, legalDatasets, categorized, qualityScores,
                   filterRuns, rate, logged, deepMeta, idx, reachable, total, scored, thrown>>

NextClassify ==
    \/ ClassifyHarvest
    \/ ClassifyFilter
    \/ ClassifyScore
    \/ ClassifyExport

SpecClassify == InitClassify /\ [][NextClassify]_vars

\* ------------------------------------------------------------------ the scorer alone
\* generateQualityScores on two records that differ in description only, for
\* every combination of description length, counts and tags, absent or not.
\* Here legalDatasets holds the records themselves.
Text(n) == [i \in 1..n |-> "x"]
Descriptions == {Undefined} \cup {Text(n) : n \in {0, 100, 101, 300, 301, MaxDescLength}}
Counts == {NoNumber, 0, 50, 51, 100, MaxCount}
TagLists == {Undefined} \cup {[i \in 1..n |-> "tag"] : n \in 0..MaxTags}
ScoreRecords ==
    [name : {<<"r">>}, description : Descriptions, category : {<<>>},
     tags : TagLists, viewCount : Counts, downloadCount : Counts]

InitScore ==
    /\ ClientFresh /\ RunFresh
    /\ browser = "null" /\ withBrowser = FALSE /\ pc = "sc_records"
    /\ crawler \in Crawlers

\* two relevant records, the second with another description
ScoreRecordsArrive ==
    /\ pc = "sc_records"
    /\ \E r \in ScoreRecords, d \in Descriptions :
          legalDatasets' = <<r, [r EXCEPT !.description = d]>>
    /\ pc' = "sc_score"
    /\ UNCHANGED <<clientVars, taskVars, crawler, withBrowser, stages, datasets,
                   socrataSet, scraped, apiReach, classVars, deepMeta, idx,
                   reachable, total, scored, exported, thrown>>

\* generateQualityScores(): this.legalDatasets.map(ds => ...)
ScoreGenerate ==
    /\ pc = "sc_score"
    /\ qualityScores' = [i \in DOMAIN legalDatasets |->
                            [id |-> i, qualityScore |-> QualityScore(legalDatasets[i])]]
    /\ scored' = scored + 1
    /\ pc' = "sc_scored"
    /\ UNCHANGED <<clientVars, taskVars, crawler, withBrowser, stages, datasets,
                   socrataSet, scraped, apiReach, legalDatasets, categorized,
                   filterRuns, rate, logged, legalCsv, deepMeta, idx, reachable, total, exported, thrown>>

NextScore ==
    \/ ScoreRecordsArrive
    \/ ScoreGenerate

SpecScore == InitScore /\ [][NextScore]_vars

\* ------------------------------------------------------------------ the probing pass alone
\* measureAPIReachability() of a run without browser whose listing held up to
\* MaxListing relevant records (in the multi-source crawler the listing
\* request may also have failed, leaving no data.texas.gov entry)
InitProbe ==
    /\ ClientFresh
    /\ browser = "null" /\ withBrowser = FALSE /\ pc = "measure"
    /\ crawler \in Crawlers
    /\ \E n \in 0..MaxListing : datasets = [i \in 1..n |-> "legal"]
    /\ socrataSet \in IF crawler = "single" THEN {FALSE}
                      ELSE IF datasets = <<>> THEN BOOLEAN ELSE {TRUE}
    /\ scraped = [s \in 1..NumGeneric |-> [assigned |-> FALSE, recs |-> <<>>]]
    /\ apiReach = [s \in 0..NumGeneric |->
                      IF s = 0 /\ crawler = "multi"
                      THEN (IF socrataSet THEN "true" ELSE "false") ELSE "unset"]
    /\ stages = <<"INIT", "DISCOVERING", "CLASSIFYING">>
    /\ legalDatasets = datasets
    /\ categorized = Categorize(EmptyBuckets, datasets)
    /\ filterRuns = 1 /\ qualityScores = <<>> /\ rate = NoRate /\ logged = {} /\ legalCsv = <<>>
    /\ deepMeta = <<>> /\ idx = 0 /\ reachable = 0 /\ total = 0
    /\ scored = 0 /\ exported = <<>> /\ thrown = "none"

NextProbe ==
    \/ MeasureAPIReachability
    \/ \E resp \in HttpResponses : ProbeDataset(fetchJSONResolves(resp))
    \/ \E resp \in HttpResponses : ProbeSource(checkReachability(resp))

SpecProbe == InitProbe /\ [][NextProbe]_vars

\* ------------------------------------------------------------------ the scrape loop
\* crawlAllSources from its for loop on, over NumScrape sources, then the rest
\* of run().  initBrowser has set this.browser; the socket is open, or the
\* WebSocket constructor threw and this.ws is still null.  crawlSocrata has
\* returned, with a listing or without one.
InitScrape ==
    /\ browser = "set" /\ ws \in {"OPEN", "null"} /\ opened = (ws = "OPEN")
    /\ id = 1 /\ pending = {} /\ calls = <<>> /\ settled = <<>>
    /\ resolved = <<>> /\ dropped = FALSE /\ uncaught = "none" /\ released = 0
    /\ op = "idle" /\ awaiting = 0 /\ ret = "undefined" /\ timer = FALSE
    /\ crawler = "multi" /\ withBrowser = TRUE /\ pc = "crawlGeneric" /\ idx = 1
    /\ stages = <<"INIT", "BROWSER_INIT", "DISCOVERING">>
    /\ \E ok \in BOOLEAN :
          /\ datasets = IF ok THEN <<"legal">> ELSE <<>>
          /\ socrataSet = ok
          /\ apiReach = [s \in 0..NumScrape |->
                            IF s > 0 THEN "unset" ELSE IF ok THEN "true" ELSE "false"]
    /\ scraped = [s \in 1..NumScrape |-> [assigned |-> FALSE, recs |-> <<>>]]
    /\ legalDatasets = <<>> /\ deepMeta = <<>>
    /\ categorized = EmptyBuckets /\ qualityScores = <<>> /\ filterRuns = 0
    /\ rate = NoRate /\ logged = {} /\ legalCsv = <<>>
    /\ reachable = 0 /\ total = 0 /\ scored = 0 /\ exported = <<>> /\ thrown = "none"

NextScrape ==
    \/ CrawlGeneric
    \/ \E resp \in HttpResponses : CrawlGenericReach(checkReachability(resp))
    \/ CrawlGenericNavigated
    \/ CrawlGenericWaited
    \/ \E parses \in BOOLEAN, recs \in Listings(MaxLinks) : CrawlGenericEvaluated(parses, recs)
    \/ FilterLegalDatasets
    \/ MeasureAPIReachability
    \/ \E resp \in HttpResponses : ProbeDataset(fetchJSONResolves(resp))
    \/ \E resp \in HttpResponses : ProbeSource(checkReachability(resp))
    \/ GenerateQualityScores
    \/ \E ok \in BOOLEAN : ExportWrite(ok)
    \/ Done
    \/ Catch
    \/ Finally
    \/ \E msg \in Messages(id) : OnMessage(msg)
    \/ Resume
    \/ NavigatePageEnable
    \/ NavigatePageNavigate
    \/ TimerFire

SpecScrape == InitScrape /\ [][NextScrape]_vars

\* ------------------------------------------------------------------ deep inspection
\* extractDeepMetadata(ids) of the single-source crawler, from its call in
\* run() to its return.  The listing has been classified and every record
\* of it is relevant; initBrowser has set this.browser; the socket is open,
\* or the WebSocket constructor threw and this.ws is still null.
InitDeep ==
    /\ browser = "set" /\ ws \in {"OPEN", "null"} /\ opened = (ws = "OPEN")
    /\ id = 1 /\ pending = {} /\ calls = <<>> /\ settled = <<>>
    /\ resolved = <<>> /\ dropped = FALSE /\ uncaught = "none" /\ released = 0
    /\ op = "idle" /\ awaiting = 0 /\ ret = "undefined" /\ timer = FALSE
    /\ crawler = "single" /\ withBrowser = TRUE /\ pc = "deep" /\ idx = 0
    /\ stages = <<"INIT", "DISCOVERING", "BROWSER_INIT", "CLASSIFYING">>
    /\ \E n \in 0..MaxDeepItems : datasets = [i \in 1..n |-> "legal"]
    /\ socrataSet = FALSE
    /\ scraped = [s \in 1..NumGeneric |-> [assigned |-> FALSE, recs |-> <<>>]]
    /\ apiReach = [s \in 0..NumGeneric |-> "unset"]
    /\ legalDatasets = datasets /\ deepMeta = <<>>
    /\ categorized = Categorize(EmptyBuckets, datasets)
    /\ qualityScores = <<>> /\ filterRuns = 1
    /\ rate = NoRate /\ logged = {} /\ legalCsv = <<>>
    /\ reachable = 0 /\ total = 0 /\ scored = 0 /\ exported = <<>> /\ thrown = "none"

\* what the page sends while the loop runs: a frame that does not parse, the
\* literal null, an event (no id) and the answers to the commands in the
\* table.  An answer under any other id is dropped as an event is.
Replies == {Malformed, NullJson}
           \cup {m \in Objects(id) : ~m.hasId \/ \E entry \in pending : entry[1] = m.id}

NextDeep ==
    \/ ExtractDeepMetadata
    \/ DeepNavigated
    \/ DeepWaited
    \/ \E parses \in BOOLEAN : DeepEvaluated(parses)
    \/ \E msg \in Replies : OnMessage(msg)
    \/ Resume
    \/ NavigatePageEnable
    \/ NavigatePageNavigate
    \/ TimerFire

SpecDeep == InitDeep /\ [][NextDeep]_vars

\* ================================================================== claims
\* the h-th send() call was assigned id k and its promise is still unsettled
Outstanding(k) == \E h \in DOMAIN calls : calls[h].mid = k /\ settled[h].state = "pending"

\* C1: whatever the order in which responses arrive, a response carrying id k
\* settles the promise returned by the send() call that was assigned id k, with
\* the payload of that very response, and touches no other promise.
C1_OwnPayloadUnderReordering ==
    [][\A k \in {calls[g].mid : g \in DOMAIN calls}, r \in Results :
          LET m == [kind |-> "object", hasId |-> TRUE, id |-> k, result |-> r] IN
          (Outstanding(k) /\ OnMessage(m)) =>
             \A h \in DOMAIN calls :
                settled'[h] = IF calls[h].mid = k THEN Resolved(Payload(m))
                              ELSE settled[h]]_vars

\* two commands were sent before either was answered, the second was answered
\* first, and each promise holds the payload of its own response
C1_Witness ==
    /\ Len(calls) >= 2
    /\ resolved = <<2, 1>>
    /\ settled[1] = Resolved(Payload([kind |-> "object", hasId |-> TRUE, id |-> 1, result |-> "value"]))
    /\ settled[2] = Resolved(Payload([kind |-> "object", hasId |-> TRUE, id |-> 2, result |-> "absent"]))

\* C2: the ids assigned by successive send() calls start at 1 and increase
\* strictly, so none is assigned twice, whatever arrived or was closed meanwhile.
C2_IdsStrictlyIncreasing ==
    /\ calls # <<>> => calls[1].mid = 1
    /\ \A g, h \in DOMAIN calls : g < h => calls[g].mid < calls[h].mid

\* three sends: one answered, then the connection closed, then one more send
C2_Witness ==
    /\ Len(calls) = 3
    /\ resolved = <<1>>
    /\ released = 1
    /\ calls[2].wire = "sent"
    /\ calls[3].wire = "discarded"

\* C3: a message (a JSON object) whose id matches no outstanding command settles
\* no promise, raises no error and leaves the pending table and the id counter
\* as they are; a promise once settled is never settled again.
C3_UnmatchedMessageDropped ==
    [][/\ \/ /\ settled' = settled /\ pending' = pending /\ id' = id
             /\ resolved' = resolved /\ uncaught' = uncaught
          \/ \A m \in Objects(id) :
                ~(OnMessage(m) /\ ~(m.hasId /\ Outstanding(m.id)))
       /\ \A h \in DOMAIN settled :
             settled[h].state \in {"resolved", "taken"} =>
                settled'[h] \in {settled[h], Taken}]_vars

\* a message was dropped on a client with one command answered and another
\* still outstanding
C3_Witness ==
    /\ dropped
    /\ uncaught = "none"
    /\ resolved # <<>>
    /\ pending # {}

\* C4 (as claimed): no error escapes the message handler, whatever is delivered.
C4_NoErrorEscapesHandler == uncaught = "none"

\* C5: navigate sends Runtime.enable, Page.enable, Page.navigate in this order,
\* each only after the response to the one before has been taken, and returns
\* only with the response to Page.navigate.
C5_NavigateIsSequential ==
    /\ \A h \in DOMAIN calls :
          /\ calls[h].method = "Page.enable" =>
                \E g \in 1..(h - 1) : /\ calls[g].method = "Runtime.enable"
                                      /\ settled[g].state = "taken"
          /\ calls[h].method = "Page.navigate" =>
                \E g \in 1..(h - 1) : /\ calls[g].method = "Page.enable"
                                      /\ settled[g].state = "taken"
    /\ \A g, h \in DOMAIN calls :
          (g < h /\ calls[g].method \in {"Runtime.enable", "Page.enable"}
                 /\ calls[h].method \in {"Page.enable", "Page.navigate"}
                 /\ calls[g].method # calls[h].method) =>
             settled[g].state # "pending"
    /\ (op = "returned" /\ ret = "object") =>
          \E h \in DOMAIN calls : /\ calls[h].method = "Page.navigate"
                                  /\ settled[h].state = "taken"
    /\ op \in {"awaitRuntime", "awaitPage", "awaitNavigate"} =>
          calls[awaiting].method =
             (CASE op = "awaitRuntime" -> "Runtime.enable"
                [] op = "awaitPage" -> "Page.enable"
                [] OTHER -> "Page.navigate")

\* a navigate() that has run to its end on an open connection
C5_Witness ==
    /\ op = "returned" /\ ret = "object"
    /\ Len(calls) = 3
    /\ \A h \in DOMAIN calls : calls[h].wire = "sent" /\ settled[h].state = "taken"

\* C6: close() settles nothing and leaves the pending table alone, and once
\* the connection is closed no pending promise is ever settled.
C6_CloseAbandonsPending ==
    [][/\ (ws # "CLOSED" /\ ws' = "CLOSED") => (settled' = settled /\ pending' = pending)
       /\ ws = "CLOSED" =>
             \A h \in DOMAIN settled :
                settled[h].state = "pending" => settled'[h].state = "pending"]_vars

\* an open connection was closed while a transmitted command was outstanding
C6_Witness ==
    /\ ws = "CLOSED" /\ released = 1
    /\ \E h \in DOMAIN calls : calls[h].wire = "sent" /\ settled[h].state = "pending"
    /\ pending # {}

\* C7: a connection that was opened stays open through every stage of run()
\* and is closed exactly once, by the end of run(); one that never opened is
\* never released.
C7_ReleasedExactlyOnce ==
    /\ released <= 1
    /\ released = 1 => (opened /\ pc = "ended")
    /\ (opened /\ pc # "ended") => ws = "OPEN"
    /\ pc = "ended" => /\ opened => (released = 1 /\ ws = "CLOSED")
                       /\ ~opened => (released = 0 /\ ws # "OPEN")

\* a run whose try block threw with the connection open has ended, released
C7_Witness ==
    /\ pc = "ended" /\ thrown # "none"
    /\ opened /\ released = 1 /\ ws = "CLOSED"
    /\ calls # <<>>

\* ranks of the stages in the order the specification lists them; deep
\* inspection is source fetching
SpecRank(s) ==
    CASE s = "INIT" -> 0
      [] s = "DISCOVERING" -> 1
      [] s = "BROWSER_INIT" -> 2
      [] s \in {"FETCHING_REMAINING_SOURCES", "DEEP_INSPECTION"} -> 3
      [] s = "CLASSIFYING" -> 4
      [] s = "PROBING_REACHABILITY" -> 5
      [] s = "SCORING" -> 6
      [] s = "EXPORTING" -> 7
      [] s = "DONE" -> 8
      [] OTHER -> 9

\* ranks of the stages in the order each run() goes through them
CodeRank(s) ==
    IF crawler = "multi"
    THEN CASE s = "INIT" -> 0
           [] s = "BROWSER_INIT" -> 1
           [] s = "DISCOVERING" -> 2
           [] s = "FETCHING_REMAINING_SOURCES" -> 3
           [] s = "CLASSIFYING" -> 4
           [] s = "PROBING_REACHABILITY" -> 6
           [] s = "SCORING" -> 7
           [] s = "EXPORTING" -> 8
           [] s = "DONE" -> 9
           [] s = "CLEANUP" -> 10
           [] OTHER -> 0 - 1
    ELSE CASE s = "INIT" -> 0
           [] s = "DISCOVERING" -> 1
           [] s = "BROWSER_INIT" -> 2
           [] s = "CLASSIFYING" -> 4
           [] s = "DEEP_INSPECTION" -> 5
           [] s = "PROBING_REACHABILITY" -> 6
           [] s = "SCORING" -> 7
           [] s = "EXPORTING" -> 8
           [] s = "DONE" -> 9
           [] s = "CLEANUP" -> 10
           [] OTHER -> 0 - 1

C9_PartialResultsExported ==
    (pc = "ended" /\ thrown # "none") => exported # <<>>

\* C10 (as claimed): when the connection never opened, no remote-control
\* command is issued.
C10_NoCommandWithoutConnection ==
    ~opened => calls = <<>>

\* C11 (as claimed): a failed listing request leaves the source with zero
\* records, marks it unreachable and does not abort the run: the discovery
\* stage never throws out of run()'s try block.
C11_ListingFailureNotFatal ==
    /\ thrown # "DISCOVERING"
    /\ apiReach[0] = "false" => (datasets = <<>> /\ ~socrataSet)

\* C12: while this.browser is null (flag absent, target list unreachable, no
\* matching target) no remote-control command is sent, no browser-scrape
\* source and no deep inspection yields a record, no browser-driven stage is
\* entered, the missing client makes nothing throw, and a run that ends
\* without a throw has written every export file from the API records alone.
C12_NoClientApiOnly ==
    browser = "null" =>
       /\ calls = <<>> /\ pending = {}
       /\ \A s \in 1..NumGeneric : ~scraped[s].assigned /\ scraped[s].recs = <<>>
       /\ deepMeta = <<>>
       /\ \A i \in DOMAIN stages :
             stages[i] \notin {"FETCHING_REMAINING_SOURCES", "DEEP_INSPECTION"}
       /\ pc \notin BrowserPcs \cup {"ib_connect"}
       /\ thrown \in {"none", "DISCOVERING", "EXPORTING"}
       /\ (pc = "ended" /\ thrown = "none") =>
             /\ Len(exported) = Len(ExportFiles)
             /\ legalDatasets = SelectSeq(datasets, IsLegal)

\* a multi-source run asked for the browser, found no client, and completed
\* its export with the records of the structured API
C12_Witness ==
    /\ crawler = "multi" /\ withBrowser /\ browser = "null"
    /\ \E i \in DOMAIN stages : stages[i] = "BROWSER_INIT"
    /\ pc = "ended" /\ thrown = "none"
    /\ Len(exported) = Len(ExportFiles)
    /\ legalDatasets # <<>>

\* C13: in crawlGeneric a remote-control command is sent only in the step
\* that learns the source is reachable, the browser is driven only for a
\* source recorded as reachable, and an unreachable source returns at once
\* with no command sent and no record stored.
C13_ProbeBeforeCommands ==
    [][/\ pc \in {"crawlGeneric", "cg_reach"} =>
             /\ calls' # calls => (pc = "cg_reach" /\ apiReach'[idx] = "true")
             /\ (pc = "cg_reach" /\ apiReach'[idx] = "false") =>
                   /\ calls' = calls /\ scraped' = scraped
                   /\ pc' \in {"crawlGeneric", "filter"}
       /\ pc' \in {"cg_nav", "cg_wait", "cg_eval"} => apiReach'[idx'] = "true"]_vars

\* with the browser connected, a source was probed unreachable and the crawl
\* moved on without a single command
C13_Witness ==
    /\ crawler = "multi" /\ browser = "set" /\ opened
    /\ pc = "filter"
    /\ apiReach[NumGeneric] = "false"
    /\ calls = <<>>
    /\ \A s \in 1..NumGeneric : ~scraped[s].assigned

Count(k, list) == Cardinality({i \in DOMAIN list : list[i] = k})

\* which keyword families the categorisation text of each catalogue item
\* contains, tabulated once
hasLawOf == [c \in Crawlers |-> [k \in Keys |->
                Some(lawKeywords(c), CategoryText(c, Record(k)))]]
hasNewsOf == [c \in Crawlers |-> [k \in Keys |->
                Some(newsKeywords, CategoryText(c, Record(k)))]]
hasAttorneyOf == [c \in Crawlers |-> [k \in Keys |->
                Some(attorneyKeywords, CategoryText(c, Record(k)))]]

\* C15: after filterLegalDatasets every record of legalDatasets is in exactly
\* one bucket, as often as it is in legalDatasets; the buckets share no
\* record; legalDatasets holds exactly the harvested records the relevance
\* filter retains; a record it rejects is in no bucket.
C15_BucketsPartitionRelevant ==
    filterRuns >= 1 =>
       /\ \A k \in Keys :
             /\ Count(k, categorized.LAW_VERIFICATION) + Count(k, categorized.NEWS)
                   + Count(k, categorized.ATTORNEY_RESOURCE) = Count(k, legalDatasets)
             /\ Cardinality({b \in Categories : Count(k, categorized[b]) > 0}) <= 1
             /\ Count(k, legalDatasets) = IF relevantOf[crawler][k] THEN Count(k, AllDatasets)
                                          ELSE 0
       /\ DOMAIN categorized = Categories

\* three harvested records were classified into three different buckets
C15_Witness ==
    /\ filterRuns >= 1 /\ Len(datasets) = 3
    /\ \A b \in Categories : Len(categorized[b]) = 1

\* C16: the first matching family wins: a record whose text contains a
\* LAW_VERIFICATION keyword is in LAW_VERIFICATION whatever else it contains;
\* otherwise one with a NEWS keyword is in NEWS; otherwise one with an
\* ATTORNEY_RESOURCE keyword is in ATTORNEY_RESOURCE; one with none of them is
\* in LAW_VERIFICATION.
C16_FirstMatchWins ==
    filterRuns >= 1 =>
       \A i \in DOMAIN legalDatasets :
          LET k == legalDatasets[i]
              law == hasLawOf[crawler][k]
              news == hasNewsOf[crawler][k]
              att == hasAttorneyOf[crawler][k]
              In(b) == Count(k, categorized[b]) > 0
          IN /\ law => In("LAW_VERIFICATION")
             /\ (~law /\ news) => In("NEWS")
             /\ (~law /\ ~news /\ att) => In("ATTORNEY_RESOURCE")
             /\ (~law /\ ~news /\ ~att) => In("LAW_VERIFICATION")

\* "County Court News" went to LAW_VERIFICATION, "bar association
\* announcement" to NEWS and "insurance rates" to the fallback
C16_Witness ==
    /\ filterRuns >= 1
    /\ datasets = <<"courtnews", "barnews", "insurance">>
    /\ categorized.LAW_VERIFICATION = <<"courtnews", "insurance">>
    /\ categorized.NEWS = <<"barnews">>

\* the LAW_VERIFICATION keywords the specification lists
SpecLawKeywords ==
    << <<"c", "o", "u", "r", "t">>, <<"c", "a", "s", "e">>, <<"f", "i", "l", "i", "n", "g">>,
       <<"c", "r", "i", "m", "i", "n", "a", "l">>,
       <<"p", "r", "o", "s", "e", "c", "u", "t", "i", "o", "n">>, <<"d", "p", "s">>,
       <<"c", "r", "i", "m", "e">>, <<"v", "i", "o", "l", "a", "t", "i", "o", "n">>,
       <<"p", "e", "n", "a", "l", "t", "y">>, <<"p", "r", "i", "s", "o", "n">>,
       <<"i", "n", "m", "a", "t", "e">>, <<"r", "e", "l", "e", "a", "s", "e">>,
       <<"s", "t", "a", "t", "u", "t", "e">>,
       <<"p", "e", "n", "a", "l", " ", "c", "o", "d", "e">> >>
hasSpecLawOf == [c \in Crawlers |-> [k \in Keys |->
                   Some(SpecLawKeywords, CategoryText(c, Record(k)))]]

\* C17 (as claimed): in both crawlers a relevant record whose text contains
\* one of court, case, filing, criminal, prosecution, dps, crime, violation,
\* penalty, prison, inmate, release, statute, "penal code" is classified
\* LAW_VERIFICATION.
C17_LawKeywordSetComplete ==
    filterRuns >= 1 =>
       \A i \in DOMAIN legalDatasets :
          hasSpecLawOf[crawler][legalDatasets[i]] =>
             Count(legalDatasets[i], categorized.LAW_VERIFICATION) > 0

\* whether the concatenation of name, description, category and joined tags
\* of each catalogue item contains a keyword of the crawler's relevance list
fullTextRelevantOf == [c \in Crawlers |-> [k \in Keys |->
                         Some(legalKeywords(c), RelevanceText("single", Record(k)))]]

\* C18 (as claimed): a harvested record is retained if and only if the
\* lowercased concatenation of its name, description, category and joined
\* tags contains a keyword of the relevance list.
C18_RelevantIffKeywordInAllFields ==
    filterRuns >= 1 =>
       \A i \in DOMAIN AllDatasets :
          (Count(AllDatasets[i], legalDatasets) > 0) <=> fullTextRelevantOf[crawler][AllDatasets[i]]

\* C19: a second filterLegalDatasets() on the same harvested records leaves
\* the relevant list and the three buckets exactly as the first left them,
\* and no bucket ever holds a record more often than it was harvested.
C19_FilterIdempotent ==
    [][(filterRuns >= 1 /\ filterRuns' = filterRuns + 1 /\ datasets' = datasets) =>
          /\ legalDatasets' = legalDatasets
          /\ categorized' = categorized
          /\ \A k \in Keys, b \in Categories :
                Count(k, categorized'[b]) <= Count(k, AllDatasets)]_vars

\* the filter ran twice on a listing that fills two buckets
C19_Witness ==
    /\ filterRuns = 2
    /\ categorized.LAW_VERIFICATION # <<>> /\ categorized.NEWS # <<>>
    /\ Len(legalDatasets) < Len(datasets)

\* the listing of the end-to-end scenario: "court case filing", "attorney
\* license bar", "weather forecast"
ScenarioListing == <<"legal", "attorney", "other">>

\* C20: on the scenario listing, after discovery, classification and scoring,
\* the relevant list holds the first two records, the first is alone in
\* LAW_VERIFICATION with score 50, the second alone in ATTORNEY_RESOURCE,
\* NEWS is empty and the third record is nowhere.
C20_ScenarioOutput ==
    (datasets = ScenarioListing /\ pc = "cl_scored") =>
       /\ legalDatasets = <<"legal", "attorney">>
       /\ categorized = [LAW_VERIFICATION |-> <<"legal">>, NEWS |-> <<>>,
                         ATTORNEY_RESOURCE |-> <<"attorney">>]
       /\ qualityScores[1] = [id |-> "legal", qualityScore |-> 50]
       /\ Len(qualityScores) = 2

\* the scenario listing has been discovered, classified and scored by the
\* multi-source crawler
C20_Witness ==
    /\ crawler = "multi" /\ datasets = ScenarioListing /\ pc = "cl_scored"
    /\ Len(qualityScores) = 2

\* length of a description, 0 when the record has none
DescLen(ds) == IF ds.description = Undefined THEN 0 ELSE Len(ds.description)
TagCount(ds) == IF ds.tags = Undefined THEN 0 ELSE Len(ds.tags)

\* C21: every score is an integer between 50 and 100 and equals
\* min(100, 50 + 15[descLen > 100] + 10[descLen > 300] + 10[views > 100]
\* + 10[downloads > 50] + 5[tags > 0]), an absent attribute counting as none.
C21_ScoreFormulaAndRange ==
    pc = "sc_scored" =>
       \A i \in DOMAIN legalDatasets :
          LET ds == legalDatasets[i]
              sum == 50 + (IF DescLen(ds) > 100 THEN 15 ELSE 0)
                        + (IF DescLen(ds) > 300 THEN 10 ELSE 0)
                        + (IF ds.viewCount > 100 THEN 10 ELSE 0)
                        + (IF ds.downloadCount > 50 THEN 10 ELSE 0)
                        + (IF TagCount(ds) > 0 THEN 5 ELSE 0)
          IN /\ qualityScores[i].qualityScore \in 50..100
             /\ qualityScores[i].qualityScore = IF sum < 100 THEN sum ELSE 100

\* a record with every bonus scored 100 and one with no attribute at all
\* scored 50
C21_Witness ==
    /\ pc = "sc_scored"
    /\ legalDatasets[1].description = Text(MaxDescLength)
    /\ legalDatasets[1].viewCount = MaxCount /\ legalDatasets[1].downloadCount = MaxCount
    /\ legalDatasets[1].tags # Undefined /\ Len(legalDatasets[1].tags) = MaxTags
    /\ qualityScores[1].qualityScore = 100
    /\ legalDatasets[2].description = Undefined
    /\ qualityScores[2].qualityScore = 75

\* C22: for an otherwise minimal record (views <= 100, downloads <= 50, no
\* tags) with no description, the same record with a description of more than
\* 300 characters scores exactly 25 more, one of 101..300 characters exactly
\* 15 more, and one of at most 100 characters the same.
C22_DescriptionBonus ==
    (/\ pc = "sc_scored"
     /\ legalDatasets[1].description = Undefined
     /\ legalDatasets[1].viewCount <= 100 /\ legalDatasets[1].downloadCount <= 50
     /\ TagCount(legalDatasets[1]) = 0) =>
       LET n == DescLen(legalDatasets[2])
           gain == qualityScores[2].qualityScore - qualityScores[1].qualityScore
       IN /\ qualityScores[1].qualityScore = 50
          /\ n > 300 => gain = 25
          /\ (n > 100 /\ n <= 300) => gain = 15
          /\ n <= 100 => gain = 0

\* a minimal record without description next to the same record with a
\* 400-character description, 25 apart
C22_Witness ==
    /\ pc = "sc_scored"
    /\ legalDatasets[1].description = Undefined /\ legalDatasets[1].tags = Undefined
    /\ legalDatasets[1].viewCount = 0 /\ legalDatasets[1].downloadCount = 0
    /\ Len(legalDatasets[2].description) = 400
    /\ qualityScores[2].qualityScore = qualityScores[1].qualityScore + 25

\* the probes a finished measureAPIReachability() has made
ProbesMade == ProbeCount + (IF crawler = "multi" THEN SourceCount ELSE 0)

\* C23 (as claimed): when measureAPIReachability returns, 0 <= reachable <=
\* total, total is the number of probes made, the rate is reachable / total
\* * 100 rounded to one decimal (6 of 10 gives "60.0"), and the rate is 0 when
\* nothing was probed.
C23_RateDefined ==
    pc = "score" =>
       /\ 0 <= reachable /\ reachable <= total
       /\ total = ProbesMade
       /\ total > 0 => /\ rate.kind = "fixed"
                       /\ 2 * total * rate.tenths <= 2000 * reachable + total
                       /\ 2000 * reachable + total < 2 * total * (rate.tenths + 1)
       /\ (reachable = 6 /\ total = 10) => rate = [kind |-> "fixed", tenths |-> 600]
       /\ total = 0 => (rate.kind \in {"number", "fixed"} /\ rate.tenths = 0)

\* C24 (as claimed): a probe of a resource endpoint or of a base url counts
\* as reached if and only if the response has status 200; no probe throws.
C24_ReachedIffStatus200 ==
    [][\A resp \in HttpResponses :
          /\ ProbeDataset(fetchJSONResolves(resp)) =>
                (reachable' = reachable + 1 <=> (resp.kind = "response" /\ resp.status = 200))
          /\ ProbeSource(checkReachability(resp)) =>
                (reachable' = reachable + 1 <=> (resp.kind = "response" /\ resp.status = 200))
          /\ thrown' = "none"]_vars

\* the response to command k, carrying a value
ResponseTo(k) == [kind |-> "object", hasId |-> TRUE, id |-> k, result |-> "value"]

\* C25: wait() is a local delay.  Arming the timer and its firing change
\* neither the connection, the id counter, the pending table, the commands
\* sent nor any promise; and while the timer is armed on an open connection
\* the response to any outstanding command can be delivered and resolves
\* that command's promise at once.
C25_WaitIsLocalDelay ==
    /\ [][(timer' # timer) => UNCHANGED <<ws, id, pending, calls, settled>>]_vars
    /\ [](( timer /\ ws = "OPEN" /\ uncaught = "none") =>
             \A h \in DOMAIN calls :
                Outstanding(calls[h].mid) =>
                   ENABLED (/\ OnMessage(ResponseTo(calls[h].mid))
                            /\ settled'[h].state = "resolved"
                            /\ timer'))

\* a wait is in progress on an open connection with one command still
\* outstanding and another one already resolved
C25_Witness ==
    /\ timer /\ op = "waiting" /\ ws = "OPEN"
    /\ \E h \in DOMAIN calls : Outstanding(calls[h].mid)
    /\ \E h \in DOMAIN calls : settled[h].state = "resolved"

\* C26: close() never throws; on an open connection with no pending command
\* it closes the connection (released once more); on a client that never
\* connected it changes nothing at all.
C26_CloseIdleOrUnconnected ==
    /\ []((pc = "client" /\ Suspended /\ ws = "OPEN" /\ pending = {}) =>
            ENABLED (ClientClose /\ ws' = "CLOSED" /\ released' = released + 1
                     /\ uncaught' = "none"))
    /\ [][ClientClose =>
             /\ uncaught' = "none" /\ op' = op
             /\ (ws = "OPEN" /\ pending = {}) => (ws' = "CLOSED" /\ released' = released + 1)
             /\ ws = "null" => UNCHANGED vars]_vars

\* an open connection with nothing pending was closed, without error
C26_Witness ==
    /\ ws = "CLOSED" /\ released = 1 /\ pending = {} /\ uncaught = "none"
    /\ op # "threw"

\* C27: evaluate() sends exactly one command, Runtime.evaluate, and awaits it;
\* when the response has been delivered it returns the value at result.value
\* of the payload if there is one, and undefined, without throwing, when the
\* payload is an error response (no result) or a result without a value.
C27_EvaluateExtractsValue ==
    [][/\ (op = "idle" /\ op' = "awaitEvaluate") =>
             /\ Len(calls') = Len(calls) + 1
             /\ calls'[Len(calls')].method = "Runtime.evaluate"
             /\ calls'[Len(calls')].mid = id
             /\ awaiting' = Len(calls')
       /\ (op = "awaitEvaluate" /\ op' # op) =>
             LET p == settled[awaiting].value IN
             /\ settled[awaiting].state = "resolved"
             /\ op' = "returned" /\ uncaught' = "none" /\ calls' = calls
             /\ (p.from = "result" /\ p.result = "value") => ret' = "value"
             /\ p.from = "msg" => ret' = "undefined"
             /\ p.result = "empty" => ret' = "undefined"]_vars

\* an error response (no result) has been delivered to an evaluate() that is
\* about to return
C27_Witness ==
    /\ op = "awaitEvaluate" /\ uncaught = "none"
    /\ calls[awaiting].method = "Runtime.evaluate"
    /\ settled[awaiting].state = "resolved"
    /\ settled[awaiting].value.from = "msg"

\* the ids in the pending table
PendingIds == {e[1] : e \in pending}

\* C28 (as claimed): the pending table holds exactly the ids that send() has
\* assigned and whose response has not been delivered.
C28_TableIsAssignedUndelivered ==
    PendingIds = {calls[h].mid : h \in {g \in DOMAIN calls :
                                          settled[g].state \notin {"resolved", "taken"}}}

\* C28 (amended): the pending table holds exactly the ids assigned by the
\* send() calls that did not throw while transmitting and whose response has
\* not been delivered; each entry resolves the promise of its own call; every
\* id in it is at least 1 and below the next id; an entry is added only by
\* send(), under the id just assigned, and removed only by the delivery of a
\* response carrying its id.
C28_TableIsTransmittedUndelivered ==
    /\ [](/\ PendingIds = {calls[h].mid : h \in {g \in DOMAIN calls :
                                                   /\ calls[g].wire # "threw"
                                                   /\ settled[g].state = "pending"}}
          /\ \A e \in pending : calls[e[2]].mid = e[1] /\ 1 <= e[1] /\ e[1] < id)
    /\ [][/\ \A e \in pending' \ pending :
                e[1] = id /\ id' = id + 1 /\ e[2] = Len(calls') /\ Len(calls') = Len(calls) + 1
          /\ \A e \in pending \ pending' :
                /\ ws = "OPEN" /\ ws' = "OPEN" /\ id' = id /\ calls' = calls
                /\ settled[e[2]].state = "pending" /\ settled'[e[2]].state = "resolved"
                /\ pending \ pending' = {e}]_vars

\* a send() that threw before the connection existed left no entry, a later
\* command was answered and its entry removed, and the entry of the last
\* command survived close()
C28_Witness ==
    /\ ws = "CLOSED" /\ Len(calls) = 3
    /\ calls[1].wire = "threw" /\ settled[2].state = "resolved"
    /\ pending = {<<3, 3>>}

\* crawlGeneric(source) returns: a step that leaves the fetch of a source
SourceReturns == pc \in {"cg_nav", "cg_eval"} /\ pc' \notin {pc, "cg_wait"}

\* C29: a failed fetch of one browser-scrape source (a command that throws, an
\* evaluation result that is missing or does not parse) leaves that source
\* without records and the other sources' records as they are, writes the
\* error to the console under that source, throws nothing into run(), and
\* the loop goes on with the next source of the registry; when the loop is
\* over every source has been probed, every reachable one fetched (records
\* assigned, or the error written), and classification can start.
C29_FetchFailureIsolated ==
    /\ [][SourceReturns =>
            /\ pc' = NextSourcePc /\ idx' = NextSourceIdx
            /\ thrown' = "none" /\ uncaught' = "none"
            /\ \A s \in DOMAIN scraped \ {idx} : scraped'[s] = scraped[s]
            /\ \/ scraped'[idx].assigned /\ logged' = logged
               \/ /\ scraped' = scraped /\ scraped[idx].recs = <<>>
                  /\ logged' = logged \cup {<<"crawlGeneric", idx>>}
            /\ (op = "threw" \/ ret # "value") => scraped' = scraped]_vars
    /\ []((pc = "cg_eval" /\ op = "returned" /\ ret = "value" /\ uncaught = "none") =>
            ENABLED (/\ CrawlGenericEvaluated(FALSE, <<>>)
                     /\ scraped' = scraped /\ thrown' = "none"
                     /\ pc' = NextSourcePc /\ idx' = NextSourceIdx))
    /\ []((pc = "filter" /\ uncaught = "none") =>
            /\ thrown = "none"
            /\ \A s \in DOMAIN scraped :
                  /\ apiReach[s] # "unset"
                  /\ \/ apiReach[s] = "false" /\ ~scraped[s].assigned
                     \/ scraped[s].assigned
                     \/ <<"crawlGeneric", s>> \in logged /\ scraped[s].recs = <<>>
            /\ ENABLED FilterLegalDatasets)

\* the first source's evaluation failed on an open connection, the second
\* source was fetched and its record classified, and every file was exported
C29_Witness ==
    /\ pc = "ended" /\ ws = "CLOSED" /\ opened /\ thrown = "none"
    /\ <<"crawlGeneric", 1>> \in logged /\ ~scraped[1].assigned
    /\ scraped[2].assigned /\ scraped[2].recs = <<"legal">>
    /\ Len(exported) = Len(ExportFiles)
    /\ filterRuns = 1 /\ Len(legalDatasets) >= 1

\* extractDeepMetadata: the try block of one item is left, by its end or by
\* its catch
ItemEnds == pc \in {"deep_nav", "deep_eval"} /\ idx' # idx

\* the ids deep inspection has given up on, and the ids it has pushed
FailedIds == {entry[2] : entry \in {l \in logged : l[1] = "extractDeepMetadata"}}
PushedIds == {deepMeta[i] : i \in DOMAIN deepMeta}

\* C30: deep inspection takes the first 10 record ids at most, in order and
\* one command at a time; an item on which navigate or evaluate throws, or
\* whose summary is missing or malformed, adds nothing to the result and its
\* error is written; the loop then goes on with the next of the first 10
\* ids, and on return the result holds, in order and under their own ids,
\* exactly the items that did not fail.
C30_DeepLoopSkipsFailures ==
    /\ [][ItemEnds =>
            /\ idx >= 1 /\ idx <= DeepLimit /\ idx <= Len(legalDatasets)
            /\ thrown' = "none" /\ uncaught' = "none"
            /\ \/ /\ pc = "deep_eval" /\ op = "returned" /\ ret = "value"
                  /\ deepMeta' = Append(deepMeta, idx) /\ logged' = logged
               \/ /\ deepMeta' = deepMeta
                  /\ logged' = logged \cup {<<"extractDeepMetadata", idx>>}
            /\ (pc = "deep_nav" \/ op = "threw" \/ ret # "value") => deepMeta' = deepMeta
            /\ IF idx < DeepLimit /\ idx < Len(legalDatasets)
               THEN /\ pc' = "deep_nav" /\ idx' = idx + 1
                    /\ Len(calls') = Len(calls) + 1
                    /\ calls'[Len(calls')].method = "Runtime.enable"
               ELSE /\ pc' = "measure" /\ calls' = calls]_vars
    /\ [][(deepMeta' # deepMeta \/ logged' # logged) => ItemEnds]_vars
    /\ []((pc = "deep_eval" /\ op = "returned" /\ ret = "value" /\ uncaught = "none") =>
            ENABLED (/\ DeepEvaluated(FALSE)
                     /\ deepMeta' = deepMeta
                     /\ pc' = IF idx < DeepLimit /\ idx < Len(legalDatasets)
                              THEN "deep_nav" ELSE "measure"))
    /\ [](/\ Cardinality(pending) <= 1
          /\ \A i, j \in DOMAIN deepMeta : i < j => deepMeta[i] < deepMeta[j]
          /\ PushedIds \cap FailedIds = {}
          /\ pc \in {"deep_nav", "deep_wait", "deep_eval"} =>
                PushedIds \cup FailedIds = 1..(idx - 1)
          /\ pc = "measure" =>
                /\ PushedIds \cup FailedIds = 1..Len(legalDatasets) \cap 1..DeepLimit
                /\ Len(calls) <= 4 * DeepLimit)

\* eleven relevant records: item 1 failed on an open connection, the later
\* items up to the tenth were visited and pushed, the eleventh was not touched
C30_Witness ==
    /\ pc = "measure" /\ ws = "OPEN" /\ uncaught = "none"
    /\ Len(legalDatasets) > DeepLimit
    /\ FailedIds = {1}
    /\ deepMeta = [i \in 1..(DeepLimit - 1) |-> i + 1]

\* C33: every row exportLegalCSV wrote carries the category of the bucket in
\* which filterLegalDatasets placed the row's record.
C33_CsvCategoryIsBucket ==
    \A i \in DOMAIN legalCsv :
        \E j \in DOMAIN categorized[legalCsv[i].category] :
            categorized[legalCsv[i].category][j] = legalCsv[i].ds

\* C31 (as claimed): when every HTTP request completes and every command in
\* the table is answered, run() comes to its end with the connection closed.
C31_RunTerminates == <>(pc = "ended" /\ ws # "OPEN")

\* C32: send() transmits and registers within one step: a command that was
\* transmitted and is not yet answered has its resolver in the table under
\* its own id, from the very step that transmitted it on; so whenever its
\* response is delivered, the response resolves its promise and is not
\* dropped.
C32_RegisteredWhenTransmitted ==
    /\ [](\A h \in DOMAIN calls :
              (calls[h].wire = "sent" /\ settled[h].state = "pending") =>
                  <<calls[h].mid, h>> \in pending)
    /\ [][\A h \in DOMAIN calls' \ DOMAIN calls :
              calls'[h].wire = "sent" =>
                  /\ <<calls'[h].mid, h>> \in pending'
                  /\ settled'[h].state = "pending"]_vars
    /\ []((ws = "OPEN" /\ Suspended) =>
              \A h \in DOMAIN calls :
                  (calls[h].wire = "sent" /\ settled[h].state = "pending") =>
                      ENABLED (/\ OnMessage(ResponseTo(calls[h].mid))
                               /\ settled'[h].state = "resolved"
                               /\ dropped' = dropped))

\* the response to the second command was delivered right after it was
\* sent, ahead of the first command's, and nothing was ever dropped
C32_Witness ==
    /\ Len(calls) = 2 /\ calls[1].wire = "sent" /\ calls[2].wire = "sent"
    /\ settled[1].state = "pending" /\ settled[2].state = "resolved"
    /\ pending = {<<calls[1].mid, 1>>}
    /\ ~dropped /\ uncaught = "none" /\ ws = "OPEN"

====
